---------------------------- MODULE Spec2Model ----------------------------
(***************************************************************************)
(* A model of src/org-ai-stats.py: the AICodePatternAnalyzer scan of a     *)
(* source tree (discovery, sequential or thread-pool analysis, merge,      *)
(* finalize).                                                              *)
(***************************************************************************)
EXTENDS Integers, Sequences, FiniteSets, TLC

(***************************************************************************)
(* Natural numbers wider than TLC's integers, as little-endian sequences   *)
(* of limbs below LimbBase with no leading zero limb (zero is << >>).      *)
(* They carry the 53-bit significands of the IEEE-754 doubles that         *)
(* analyze_file_patterns computes with.                                    *)
(***************************************************************************)
RECURSIVE SmallBitLen(_)
SmallBitLen(n) == IF n = 0 THEN 0 ELSE 1 + SmallBitLen(n \div 2)

LimbBase == 2 ^ 15

LimbBits == SmallBitLen(LimbBase) - 1

RECURSIVE Pow2(_)
Pow2(k) == IF k = 0 THEN 1 ELSE 2 * Pow2(k - 1)

RECURSIVE BNorm(_)
BNorm(a) ==
    IF a = << >> THEN << >>
    ELSE IF a[Len(a)] = 0 THEN BNorm(SubSeq(a, 1, Len(a) - 1))
    ELSE a

RECURSIVE FromNat(_)
FromNat(n) == IF n = 0 THEN << >> ELSE <<n % LimbBase>> \o FromNat(n \div LimbBase)

RECURSIVE ToNat(_)
ToNat(a) == IF a = << >> THEN 0 ELSE Head(a) + LimbBase * ToNat(Tail(a))

BitLen(a) == IF a = << >> THEN 0 ELSE LimbBits * (Len(a) - 1) + SmallBitLen(a[Len(a)])

\* a < b, comparing from the most significant limb
RECURSIVE BLessFrom(_, _, _)
BLessFrom(a, b, i) ==
    IF i = 0 THEN FALSE
    ELSE IF a[i] # b[i] THEN a[i] < b[i]
    ELSE BLessFrom(a, b, i - 1)

BLess(a, b) ==
    IF Len(a) # Len(b) THEN Len(a) < Len(b) ELSE BLessFrom(a, b, Len(a))

\* a * m + c for 0 <= m < LimbBase, 0 <= c < LimbBase
RECURSIVE BMulSmallAdd(_, _, _)
BMulSmallAdd(a, m, c) ==
    IF a = << >> THEN FromNat(c)
    ELSE LET v == Head(a) * m + c
         IN  <<v % LimbBase>> \o BMulSmallAdd(Tail(a), m, v \div LimbBase)

RECURSIVE BAddC(_, _, _)
BAddC(a, b, c) ==
    IF a = << >> /\ b = << >> THEN FromNat(c)
    ELSE LET x == IF a = << >> THEN 0 ELSE Head(a)
             y == IF b = << >> THEN 0 ELSE Head(b)
             v == x + y + c
         IN  <<v % LimbBase>> \o
             BAddC(IF a = << >> THEN a ELSE Tail(a),
                   IF b = << >> THEN b ELSE Tail(b), v \div LimbBase)

BAdd(a, b) == BAddC(a, b, 0)

\* a - b for a >= b, not normalised
RECURSIVE BSubC(_, _, _)
BSubC(a, b, c) ==
    IF a = << >> THEN << >>
    ELSE LET y == IF b = << >> THEN 0 ELSE Head(b)
             v == Head(a) - y - c
         IN  <<IF v < 0 THEN v + LimbBase ELSE v>> \o
             BSubC(Tail(a), IF b = << >> THEN b ELSE Tail(b), IF v < 0 THEN 1 ELSE 0)

BSub(a, b) == BNorm(BSubC(a, b, 0))

RECURSIVE BMul(_, _)
BMul(a, b) ==
    IF a = << >> \/ b = << >> THEN << >>
    ELSE BAdd(BNorm(BMulSmallAdd(a, Head(b), 0)),
              LET t == BMul(a, Tail(b)) IN IF t = << >> THEN t ELSE <<0>> \o t)

\* a * 2^k
RECURSIVE BShl(_, _)
BShl(a, k) ==
    IF a = << >> THEN a
    ELSE IF k >= LimbBits THEN <<0>> \o BShl(a, k - LimbBits)
    ELSE BNorm(BMulSmallAdd(a, Pow2(k), 0))

\* a \div d for 0 < d < LimbBase, from the most significant limb, not normalised
RECURSIVE BDivSmallFrom(_, _, _, _)
BDivSmallFrom(a, d, i, r) ==
    IF i = 0 THEN << >>
    ELSE LET v == r * LimbBase + a[i]
         IN  BDivSmallFrom(a, d, i - 1, v % d) \o <<v \div d>>

\* a \div 2^k
RECURSIVE BShr(_, _)
BShr(a, k) ==
    IF a = << >> THEN a
    ELSE IF k >= LimbBits THEN BShr(Tail(a), k - LimbBits)
    ELSE BNorm(BDivSmallFrom(a, Pow2(k), Len(a), 0))

BOdd(a) == a # << >> /\ Head(a) % 2 = 1

\* the largest g in lo..hi-1 with d * g <= r, given d * lo <= r < d * hi
RECURSIVE BDigit(_, _, _, _)
BDigit(r, d, lo, hi) ==
    IF hi - lo = 1 THEN lo
    ELSE LET mid == (lo + hi) \div 2
         IN  IF BLess(r, BNorm(BMulSmallAdd(d, mid, 0)))
             THEN BDigit(r, d, lo, mid)
             ELSE BDigit(r, d, mid, hi)

\* quotient and remainder by d > 0 of the limbs i..Len(a) of a: long division
RECURSIVE BDivFrom(_, _, _)
BDivFrom(a, i, d) ==
    IF i > Len(a) THEN [q |-> << >>, r |-> << >>]
    ELSE LET p == BDivFrom(a, i + 1, d)
             r == BNorm(<<a[i]>> \o p.r)
             g == BDigit(r, d, 0, LimbBase)
         IN  [q |-> BNorm(<<g>> \o p.q), r |-> BSub(r, BNorm(BMulSmallAdd(d, g, 0)))]

BDivMod(a, d) == BDivFrom(a, 1, d)

(***************************************************************************)
(* Positive IEEE-754 binary64 values as [m, e], meaning m * 2^e with       *)
(* m <= 2^53: the results of Python's float division and multiplication,   *)
(* rounded to nearest, ties to even.  No value of the model leaves the     *)
(* normal range.                                                           *)
(***************************************************************************)
MantBits == 53

\* q * 2^e, with `sticky` when the exact value lies strictly above it
RoundToDouble(q, sticky, e) ==
    LET L == BitLen(q)
    IN  IF L <= MantBits THEN [m |-> q, e |-> e]
        ELSE LET k    == L - MantBits
                 kept == BShr(q, k)
                 rem  == BSub(q, BShl(kept, k))
                 half == BShl(<<1>>, k - 1)
                 up   == \/ BLess(half, rem)
                         \/ rem = half /\ (sticky \/ BOdd(kept))
             IN  [m |-> IF up THEN BAdd(kept, <<1>>) ELSE kept, e |-> e + k]

FloatOfInt(n) == [m |-> FromNat(n), e |-> 0]

\* x / y for doubles x > 0 and y > 0
FloatDiv(x, y) ==
    LET need == BitLen(y.m) + MantBits + 2 - BitLen(x.m)
        s    == IF need > 0 THEN need ELSE 0
        d    == BDivMod(BShl(x.m, s), y.m)
    IN  RoundToDouble(d.q, d.r # << >>, x.e - y.e - s)

FloatMul(x, y) == RoundToDouble(BMul(x.m, y.m), FALSE, x.e + y.e)

\* x < y for positive doubles
FloatLess(x, y) ==
    IF x.e >= y.e THEN BLess(BShl(x.m, x.e - y.e), y.m)
    ELSE BLess(x.m, BShl(y.m, y.e - x.e))

\* int(x): truncation
FloatToInt(x) == IF x.e >= 0 THEN ToNat(BShl(x.m, x.e)) ELSE ToNat(BShr(x.m, 0 - x.e))

(***************************************************************************)
(* analyze_file_patterns, lines 303-313: the density-to-lines mapping.     *)
(***************************************************************************)
SparseScore == 5

LinesPerUnit == 100

\* the literal 0.8: the double nearest to 4/5
DensityCap == FloatDiv(FloatOfInt(4), FloatOfInt(5))

\* the quotient alone, without the cap
DensityFactorUncapped(total_lines, pattern_score) ==
    FloatDiv(FloatOfInt(pattern_score),
             FloatDiv(FloatOfInt(total_lines), FloatOfInt(LinesPerUnit)))

\* the quotient capped at the whole file: min(q, 1.0)
DensityFactorWholeFile(total_lines, pattern_score) ==
    LET q == FloatDiv(FloatOfInt(pattern_score),
                      FloatDiv(FloatOfInt(total_lines), FloatOfInt(LinesPerUnit)))
    IN  IF FloatLess(q, FloatOfInt(1)) THEN q ELSE FloatOfInt(1)

\* min(pattern_score / (total_lines / 100), 0.8)
DensityFactor(total_lines, pattern_score) ==
    LET q == FloatDiv(FloatOfInt(pattern_score),
                      FloatDiv(FloatOfInt(total_lines), FloatOfInt(LinesPerUnit)))
    IN  IF FloatLess(q, DensityCap) THEN q ELSE DensityCap

Min(a, b) == IF a <= b THEN a ELSE b

AiPatternLines(total_lines, pattern_score) ==
    IF pattern_score = 0 THEN 0
    ELSE IF pattern_score < SparseScore THEN Min(pattern_score, total_lines \div 10)
    ELSE FloatToInt(FloatMul(FloatOfInt(total_lines),
                             DensityFactor(total_lines, pattern_score)))

(***************************************************************************)
(* Python dicts as functions whose DOMAIN is the key set.                  *)
(***************************************************************************)
EmptyDict == [k \in {} |-> 0]

\* d[k] += v on a defaultdict(int)
DictAdd(d, k, v) ==
    IF k \in DOMAIN d THEN [d EXCEPT ![k] = @ + v] ELSE d @@ (k :> v)

\* d.get(k, 0)
DictGet(d, k) == IF k \in DOMAIN d THEN d[k] ELSE 0

\* for k, v in src.items(): d[k] += v
DictAddAll(d, src) ==
    [k \in DOMAIN d \cup DOMAIN src |-> DictGet(d, k) + DictGet(src, k)]

\* d.update(src): the keys of src take src's values
DictUpdate(d, src) ==
    [k \in DOMAIN d \cup DOMAIN src |-> IF k \in DOMAIN src THEN src[k] ELSE d[k]]

\* sum(d.values())
RECURSIVE SumOver(_, _)
SumOver(d, keys) ==
    IF keys = {} THEN 0
    ELSE LET k == CHOOSE x \in keys : TRUE
         IN  d[k] + SumOver(d, keys \ {k})

DictSum(d) == SumOver(d, DOMAIN d)

(***************************************************************************)
(* __init__, lines 30-98: the names of the rules of self.ai_patterns.      *)
(***************************************************************************)
ai_patterns ==
    [python |->
        {"verbose_docstrings", "generic_variable_names", "excessive_type_hints",
         "boilerplate_error_handling", "generic_function_names", "redundant_comments",
         "verbose_logging", "over_engineered", "lambda_overuse",
         "unnecessary_comprehensions"},
     javascript |->
        {"async_everywhere", "excessive_destructuring", "generic_variable_names",
         "arrow_function_overuse", "try_catch_boilerplate", "console_log_debugging",
         "generic_function_names", "unnecessary_spread", "promise_chains",
         "callback_hell"},
     java |->
        {"excessive_abstractions", "generic_variable_names", "boilerplate_getters_setters",
         "unnecessary_null_checks", "verbose_exception_handling", "generic_class_names",
         "redundant_interfaces", "unnecessary_boxing", "verbose_constructors",
         "singleton_pattern"},
     typescript |->
        {"excessive_interfaces", "any_type_overuse", "generic_variable_names",
         "unnecessary_type_assertions", "verbose_generics", "enum_overuse",
         "utility_type_overuse"},
     cpp |->
        {"unnecessary_templates", "generic_variable_names", "excessive_namespaces",
         "auto_overuse", "smart_pointer_overuse", "verbose_constructors",
         "unnecessary_const"},
     general |->
        {"repetitive_structure", "magic_numbers", "placeholder_values",
         "long_parameter_lists", "deep_nesting", "copy_paste_patterns", "generic_naming",
         "excessive_comments", "long_lines", "empty_catch_blocks"}]

\* detect_language, lines 181-202
ext_to_lang ==
    (".py" :> "python") @@ (".js" :> "javascript") @@ (".ts" :> "typescript") @@
    (".tsx" :> "typescript") @@ (".jsx" :> "javascript") @@ (".java" :> "java") @@
    (".cpp" :> "cpp") @@ (".cc" :> "cpp") @@ (".cxx" :> "cpp") @@ (".c" :> "cpp") @@
    (".cs" :> "csharp") @@ (".go" :> "go") @@ (".rs" :> "rust") @@ (".php" :> "php") @@
    (".rb" :> "ruby") @@ (".swift" :> "swift") @@ (".kt" :> "kotlin") @@
    (".scala" :> "scala")

\* str.lower() on the suffixes of the model
Lower(suffix) ==
    CASE suffix = ".PY" -> ".py"
      [] suffix = ".JS" -> ".js"
      [] OTHER -> suffix

detect_language(file) ==
    IF Lower(file.suffix) \in DOMAIN ext_to_lang THEN ext_to_lang[Lower(file.suffix)]
    ELSE "general"

\* analyze_repository, lines 362-368
code_extensions ==
    {".py", ".js", ".ts", ".jsx", ".tsx", ".java", ".cpp", ".cc", ".cxx", ".c",
     ".cs", ".go", ".rs", ".php", ".rb", ".swift", ".kt", ".scala", ".m", ".h"}

skip_dirs ==
    {".git", "node_modules", "__pycache__", ".venv", "venv", "target",
     "build", "dist", ".next", "coverage", "vendor"}

(***************************************************************************)
(* A file of the scanned tree.  Its text is kept as runs of equal lines    *)
(* (n lines of one length, indentation and kind), the match counts of the  *)
(* catalog's regular expressions on it (rx, keyed by <<scope, rule>>), the *)
(* counts ast.walk would give (ast) and whether ast.parse accepts it.      *)
(* `behaviour` is what a call of analyze_file_patterns on it does: return  *)
(* ("ok"), return after more than the result timeout ("slow"), never       *)
(* return ("hang"), or raise ("raise").                                    *)
(***************************************************************************)
MaxFileSize == 10 * 1024 * 1024

RECURSIVE SumFrom(_, _)
SumFrom(seq, j) == IF j > Len(seq) THEN 0 ELSE seq[j] + SumFrom(seq, j + 1)

SumSeq(seq) == SumFrom(seq, 1)

\* len(code.split('\n'))
LineCount(file) == SumSeq([j \in 1..Len(file.text) |-> file.text[j].n])

\* not code.strip()
IsBlank(file) == \A j \in 1..Len(file.text) : file.text[j].kind = "blank"

\* analyze_complexity_fast, lines 319-341
LongLineLimit == 120

DeepIndentLimit == 16

\* lines 323-339: the lines of a run counted under a name; blank lines are
\* skipped, and a comment line is one that starts with # or //
Counted(run, name) ==
    /\ run.kind # "blank"
    /\ CASE name = "long_lines" -> run.len > LongLineLimit
         [] name = "deep_nesting" -> run.indent > DeepIndentLimit
         [] name = "excessive_comments" -> run.kind = "comment"

CountRuns(text, name) ==
    SumSeq([j \in 1..Len(text) |-> IF Counted(text[j], name) THEN text[j].n ELSE 0])

NonZero(d) == [k \in {x \in DOMAIN d : d[x] > 0} |-> d[k]]

analyze_complexity_fast(text) ==
    NonZero([name \in {"long_lines", "deep_nesting", "excessive_comments"} |->
                CountRuns(text, name)])

\* analyze_python_ast, lines 204-247
analyze_python_ast(file) == IF file.syntax_ok THEN NonZero(file.ast) ELSE EmptyDict

\* lines 276-289: the matches of the language's rules and of the general rules
RegexMatches(file, scope, name) ==
    IF scope \in DOMAIN ai_patterns /\ name \in ai_patterns[scope]
       /\ <<scope, name>> \in DOMAIN file.rx
       /\ <<scope, name>> \notin file.rx_error
    THEN file.rx[<<scope, name>>] ELSE 0

\* a regex pass that is given up as a whole when one of its rules raises
RegexPatternsAllOrNothing(file, language) ==
    LET names == (IF language \in DOMAIN ai_patterns THEN ai_patterns[language] ELSE {})
                 \cup ai_patterns["general"]
        count(name) == RegexMatches(file, language, name)
                       + RegexMatches(file, "general", name)
        failed == \E r \in file.rx_error :
                      r[1] \in {language, "general"} /\ r[1] \in DOMAIN ai_patterns
    IN  IF failed THEN EmptyDict ELSE NonZero([name \in names |-> count(name)])

\* lines 276-289: the rules of the file's language, then the general rules;
\* a rule that raises re.error is passed over
RegexPatterns(file, language) ==
    LET names == (IF language \in DOMAIN ai_patterns THEN ai_patterns[language] ELSE {})
                 \cup ai_patterns["general"]
        count(name) == RegexMatches(file, language, name)
                       + RegexMatches(file, "general", name)
    IN  NonZero([name \in names |-> count(name)])

MinLines == 5

AstLineLimit == 10000

\* the three passes with the syntax tree walked for every file
AllPatternsAstAlways(file) ==
    LET language == detect_language(file)
        regex    == RegexPatterns(file, language)
        withcx   == DictUpdate(regex, analyze_complexity_fast(file.text))
    IN  DictAddAll(withcx, analyze_python_ast(file))

\* lines 274-301: all_patterns after the three passes
AllPatterns(file) ==
    LET language == detect_language(file)
        regex    == RegexPatterns(file, language)
        withcx   == DictUpdate(regex, analyze_complexity_fast(file.text))
    IN  IF language = "python" /\ LineCount(file) < AstLineLimit
        THEN DictAddAll(withcx, analyze_python_ast(file))
        ELSE withcx

Skipped == [total_lines |-> 0, ai_lines |-> 0, patterns |-> EmptyDict]

\* an analysis that runs the passes on a file of any length
analyze_file_patterns_any_length(file) ==
    IF ~file.readable \/ file.size > MaxFileSize THEN Skipped
    ELSE IF IsBlank(file) THEN Skipped
    ELSE LET all_patterns == AllPatterns(file)
         IN  [total_lines |-> LineCount(file),
              ai_lines    |-> AiPatternLines(LineCount(file), DictSum(all_patterns)),
              patterns    |-> all_patterns]

\* analyze_file_patterns, lines 249-317, for a call that returns
analyze_file_patterns(file) ==
    IF ~file.readable \/ file.size > MaxFileSize THEN Skipped
    ELSE IF IsBlank(file) THEN Skipped
    ELSE IF LineCount(file) < MinLines
    THEN [total_lines |-> LineCount(file), ai_lines |-> 0, patterns |-> EmptyDict]
    ELSE LET all_patterns == AllPatterns(file)
         IN  [total_lines |-> LineCount(file),
              ai_lines    |-> AiPatternLines(LineCount(file), DictSum(all_patterns)),
              patterns    |-> all_patterns]

(***************************************************************************)
(* self.results, lines 100-114, and its updates.  A percentage             *)
(* ai / total * 100 is kept as the pair [num, den] of the two integers:    *)
(* for line counts below 2^26 two such doubles compare as the fractions    *)
(* do.                                                                     *)
(***************************************************************************)
Percent(ai_lines, total_lines) ==
    IF total_lines > 0 THEN [num |-> ai_lines, den |-> total_lines]
    ELSE [num |-> 0, den |-> 1]

PercentLess(a, b) == a.num * b.den < b.num * a.den

ZeroSummary ==
    [total_files |-> 0, analyzed_files |-> 0, total_lines |-> 0,
     ai_pattern_lines |-> 0, ai_percentage |-> Percent(0, 0)]

InitialResults ==
    [analysis_summary   |-> ZeroSummary,
     pattern_details    |-> EmptyDict,
     language_breakdown |-> EmptyDict,
     file_analysis      |-> << >>,
     top_ai_files       |-> << >>]

\* analyze_repository, lines 348-359: the four keys that are reset
ResetResults(res) ==
    [res EXCEPT !.analysis_summary   = ZeroSummary,
                !.pattern_details    = EmptyDict,
                !.language_breakdown = EmptyDict,
                !.file_analysis      = << >>]

ZeroLanguage == [total_lines |-> 0, ai_pattern_lines |-> 0, files |-> 0]

\* a merge that keeps the language counts for files with lines only
_process_file_result_by_lines(res, file, total_lines, ai_lines, patterns) ==
    LET language == detect_language(file)
        before   == IF language \in DOMAIN res.language_breakdown
                    THEN res.language_breakdown[language] ELSE ZeroLanguage
        after    == [total_lines      |-> before.total_lines + total_lines,
                     ai_pattern_lines |-> before.ai_pattern_lines + ai_lines,
                     files            |-> before.files + 1]
        file_result ==
            [path             |-> file.dirs \o <<file.name>>,
             language         |-> language,
             total_lines      |-> total_lines,
             ai_pattern_lines |-> ai_lines,
             ai_percentage    |-> Percent(ai_lines, total_lines),
             patterns_found   |-> Cardinality(DOMAIN patterns)]
    IN  [res EXCEPT
            !.analysis_summary.analyzed_files   = @ + 1,
            !.analysis_summary.total_lines      = @ + total_lines,
            !.analysis_summary.ai_pattern_lines = @ + ai_lines,
            !.language_breakdown =
                IF total_lines = 0 THEN @
                ELSE [l \in DOMAIN @ \cup {language} |->
                         IF l = language THEN after ELSE @[l]],
            !.pattern_details    = DictAddAll(@, patterns),
            !.file_analysis      = Append(@, file_result)]

\* _process_file_result, lines 425-454 (top_patterns is not kept)
_process_file_result(res, file, total_lines, ai_lines, patterns) ==
    LET language == detect_language(file)
        before   == IF language \in DOMAIN res.language_breakdown
                    THEN res.language_breakdown[language] ELSE ZeroLanguage
        after    == [total_lines      |-> before.total_lines + total_lines,
                     ai_pattern_lines |-> before.ai_pattern_lines + ai_lines,
                     files            |-> before.files + 1]
        file_result ==
            [path             |-> file.dirs \o <<file.name>>,
             language         |-> language,
             total_lines      |-> total_lines,
             ai_pattern_lines |-> ai_lines,
             ai_percentage    |-> Percent(ai_lines, total_lines),
             patterns_found   |-> Cardinality(DOMAIN patterns)]
    IN  [res EXCEPT
            !.analysis_summary.analyzed_files   = @ + 1,
            !.analysis_summary.total_lines      = @ + total_lines,
            !.analysis_summary.ai_pattern_lines = @ + ai_lines,
            !.language_breakdown = [l \in DOMAIN @ \cup {language} |->
                                       IF l = language THEN after ELSE @[l]],
            !.pattern_details    = DictAddAll(@, patterns),
            !.file_analysis      = Append(@, file_result)]

\* sorted(..., key=ai_percentage, reverse=True): stable, so an entry stands
\* behind the entries of a higher key and the earlier entries of its own key
RankByDensity(seq, j) ==
    1 + Cardinality({k \in 1..Len(seq) :
                        \/ PercentLess(seq[j].ai_percentage, seq[k].ai_percentage)
                        \/ /\ k < j
                           /\ ~PercentLess(seq[k].ai_percentage, seq[j].ai_percentage)})

SortByDensity(seq) ==
    [r \in 1..Len(seq) |-> seq[CHOOSE j \in 1..Len(seq) : RankByDensity(seq, j) = r]]

TopN == 20

Take(seq, n) == SubSeq(seq, 1, Min(n, Len(seq)))

\* a finalization that sorts the files and leaves the percentage alone
_finalize_results_unrated(res) ==
    [res EXCEPT !.top_ai_files = Take(SortByDensity(res.file_analysis), TopN)]

\* _finalize_results, lines 465-481
_finalize_results(res) ==
    LET summary == res.analysis_summary
    IN  [res EXCEPT
            !.analysis_summary.ai_percentage =
                IF summary.total_lines > 0
                THEN Percent(summary.ai_pattern_lines, summary.total_lines) ELSE @,
            !.top_ai_files = Take(SortByDensity(res.file_analysis), TopN)]

(***************************************************************************)
(* The tree walk of analyze_repository, lines 370-378.                     *)
(***************************************************************************)
\* file_path.parts of repo_path / dirs / name
Parts(root, file) == root \o file.dirs \o <<file.name>>

InParts(name, parts) == \E j \in 1..Len(parts) : parts[j] = name

\* a test of the name of the file's own directory alone
IsCandidateByParent(root, file) ==
    /\ Lower(file.suffix) \in code_extensions
    /\ ~(file.dirs # << >> /\ file.dirs[Len(file.dirs)] \in skip_dirs)

\* lines 373-377: a recognized suffix and no skipped name among the parts
IsCandidate(root, file) ==
    /\ Lower(file.suffix) \in code_extensions
    /\ ~ \E skip_dir \in skip_dirs : InParts(skip_dir, Parts(root, file))

RECURSIVE SelectIndices(_, _, _)
SelectIndices(root, files, j) ==
    IF j > Len(files) THEN << >>
    ELSE (IF IsCandidate(root, files[j]) THEN <<j>> ELSE << >>)
         \o SelectIndices(root, files, j + 1)

\* files_to_analyze, as indices into the files rglob yields, in its order
Candidates(repo) == SelectIndices(repo.root, repo.files, 1)

ParallelThreshold == 20

(***************************************************************************)
(* The trees the scans run on.                                             *)
(***************************************************************************)
Run(n, len, indent, kind) == [n |-> n, len |-> len, indent |-> indent, kind |-> kind]

PlainFile(name, suffix, lines) ==
    [dirs |-> << >>, name |-> name, suffix |-> suffix, size |-> 4096,
     readable |-> TRUE, text |-> <<Run(lines, 24, 4, "code")>>, rx |-> EmptyDict,
     rx_error |-> {}, ast |-> EmptyDict, syntax_ok |-> TRUE, behaviour |-> "ok"]

APy == PlainFile("a.py", ".py", 50)

BPy == [PlainFile("b.py", ".py", 500) EXCEPT
           !.rx = (<<"python", "generic_variable_names">> :> 30) @@
                  (<<"general", "magic_numbers">> :> 10)]

CTxt == PlainFile("c.txt", ".txt", 7)

EmptyPy == [PlainFile("empty.py", ".py", 1) EXCEPT !.text = <<Run(1, 0, 0, "blank")>>]

LockedJs == [PlainFile("locked.js", ".js", 30) EXCEPT !.readable = FALSE]

HugeJs == [PlainFile("bundle.js", ".js", 9000) EXCEPT
              !.size = MaxFileSize + 1,
              !.rx = (<<"general", "magic_numbers">> :> 7)]

TinyPy == [PlainFile("tiny.py", ".py", 3) EXCEPT
              !.rx = (<<"general", "placeholder_values">> :> 2)]

WideJs == [PlainFile("wide.js", ".js", 13) EXCEPT
              !.text = <<Run(3, 134, 0, "code"), Run(10, 4, 0, "code")>>,
              !.rx = (<<"general", "long_lines">> :> 1) @@
                     (<<"general", "copy_paste_patterns">> :> 1)]

SvcPy == [PlainFile("svc.py", ".py", 40) EXCEPT
             !.text = <<Run(38, 30, 4, "code"), Run(2, 12, 0, "comment")>>,
             !.rx  = (<<"python", "generic_variable_names">> :> 2) @@
                     (<<"general", "excessive_comments">> :> 2),
             !.ast = ("generic_variable_names" :> 1) @@ ("lambda_overuse" :> 1)]

DepJs == [PlainFile("index.js", ".js", 60) EXCEPT
             !.dirs = <<"node_modules">>,
             !.rx = (<<"javascript", "console_log_debugging">> :> 3)]

VendoredPy == [PlainFile("six.py", ".py", 80) EXCEPT
                  !.dirs = <<"src", "vendor", "lib">>,
                  !.rx = (<<"general", "magic_numbers">> :> 6)]

OomPy == [PlainFile("oom.py", ".py", 20) EXCEPT !.behaviour = "raise"]

SlowPy == [PlainFile("slow.py", ".py", 20) EXCEPT
              !.behaviour = "slow",
              !.rx = (<<"general", "magic_numbers">> :> 1)]

HangPy == [PlainFile("hang.py", ".py", 20) EXCEPT !.behaviour = "hang"]

\* a file on which one rule of its language raises re.error
FlakyPy == [PlainFile("flaky.py", ".py", 30) EXCEPT
               !.rx = (<<"python", "verbose_logging">> :> 2) @@
                      (<<"python", "redundant_comments">> :> 1) @@
                      (<<"general", "magic_numbers">> :> 3),
               !.rx_error = {<<"python", "verbose_logging">>}]

Palette ==
    <<APy, BPy, CTxt, EmptyPy, LockedJs, HugeJs, TinyPy, WideJs, SvcPy, DepJs,
      VendoredPy, OomPy, SlowPy, HangPy>>

\* the files that matter to the thread pool
PoolPalette == <<BPy, OomPy, SlowPy, HangPy>>

FillerNames ==
    <<"f01.py", "f02.py", "f03.py", "f04.py", "f05.py", "f06.py", "f07.py", "f08.py",
     "f09.py", "f10.py", "f11.py", "f12.py", "f13.py", "f14.py", "f15.py", "f16.py",
     "f17.py", "f18.py", "f19.py", "f20.py", "f21.py", "f22.py", "f23.py", "f24.py",
     "f25.py", "f26.py", "f27.py", "f28.py", "f29.py", "f30.py">>

Filler(j) ==
    [PlainFile(FillerNames[j], ".py", 10) EXCEPT
        !.rx = (<<"general", "magic_numbers">> :> 2)]

Fillers(n) == [j \in 1..n |-> Filler(j)]

Root == <<"work", "proj">>

MaxSpecial == 2

MaxFill == 21

MaxWorkers == 2

\* the files of a palette at the positions of `at`, in the palette's order
RECURSIVE Pick(_, _, _)
Pick(palette, at, j) ==
    IF j > Len(palette) THEN << >>
    ELSE (IF j \in at THEN <<palette[j]>> ELSE << >>) \o Pick(palette, at, j + 1)

Picks(palette, n) ==
    {Pick(palette, at, 1) : at \in {x \in SUBSET (1..Len(palette)) : Cardinality(x) <= n}}

SmallTrees == {[root |-> Root, files |-> p, access |-> "ok"] : p \in Picks(Palette, MaxSpecial)}

\* more candidates than ParallelThreshold, or exactly as many
LargeTrees ==
    {[root |-> Root, files |-> p \o Fillers(ParallelThreshold), access |-> "ok"] :
        p \in Picks(PoolPalette, 1)}
    \cup
    {[root |-> Root, files |-> Fillers(ParallelThreshold) \o p, access |-> "ok"] :
        p \in Picks(PoolPalette, 1)}
    \cup
    {[root |-> Root, files |-> Fillers(n), access |-> "ok"] : n \in ParallelThreshold..MaxFill}

\* a.py, b.py and c.txt in one directory
ScenarioTree == [root |-> Root, files |-> <<APy, BPy, CTxt>>, access |-> "ok"]

\* a checkout that lies below a directory named build
SkipRootTree ==
    [root |-> <<"build", "proj">>, files |-> <<APy, CTxt>>, access |-> "ok"]

\* roots that cannot be walked: a path that does not exist, and a directory
\* the process may not list.  rglob yields nothing for either.
BrokenTrees ==
    {[root |-> Root, files |-> << >>, access |-> a] : a \in {"missing", "denied"}}

\* files around the conditions of the syntax-tree pass: one line below the
\* ceiling, at the ceiling, text ast.parse rejects, and a file of another
\* language whose text ast.parse would accept
AstPy == [PlainFile("ast.py", ".py", AstLineLimit - 1) EXCEPT
             !.rx  = (<<"general", "magic_numbers">> :> 1),
             !.ast = ("generic_function_names" :> 2)]

CeilingPy == [PlainFile("ceiling.py", ".py", AstLineLimit) EXCEPT
                 !.rx  = (<<"general", "magic_numbers">> :> 1),
                 !.ast = ("generic_function_names" :> 2)]

BrokenPy == [PlainFile("broken.py", ".py", 40) EXCEPT
                !.rx  = (<<"general", "magic_numbers">> :> 2),
                !.ast = ("lambda_overuse" :> 3),
                !.syntax_ok = FALSE]

ScriptJs == [PlainFile("script.js", ".js", 40) EXCEPT
                !.rx  = (<<"javascript", "console_log_debugging">> :> 1),
                !.ast = ("lambda_overuse" :> 1)]

AstTrees ==
    {[root |-> Root, files |-> <<f>>, access |-> "ok"] :
        f \in {AstPy, CeilingPy, BrokenPy, ScriptJs}}

FlakyTree == [root |-> Root, files |-> <<FlakyPy, APy>>, access |-> "ok"]

Trees ==
    SmallTrees \cup LargeTrees \cup {ScenarioTree, SkipRootTree, FlakyTree}
    \cup BrokenTrees \cup AstTrees

(***************************************************************************)
(* The analyzer and one call of analyze_repository on it.                  *)
(*   pc               where the calling thread is                          *)
(*   repo, use_parallel   the arguments of the call in progress; repo has  *)
(*                    the root's path parts, the files rglob yields below  *)
(*                    it and whether the root can be walked (access)       *)
(*   init_args        what __init__ was given: its max_workers argument    *)
(*                    (0 for a value that is false: None or 0) and the     *)
(*                    machine's cpu_count()                                *)
(*   max_workers      self.max_workers                                     *)
(*   results          self.results                                         *)
(*   files_to_analyze, i   the candidate list and the number of loop       *)
(*                    iterations done                                      *)
(*   futures          the state of each submitted work item                *)
(*   ret              the tuple last unpacked from analyze_file_patterns   *)
(*   analysed         how often analyze_file_patterns was entered for each *)
(*                    file of the tree during this call                    *)
(*   timed_out        the candidates whose result() wait expired           *)
(*   prev             what the previous call on this analyzer was given    *)
(*                    and what came back                                   *)
(*   monthly          a MonthlyContributorAnalyzer of org-contributor.py   *)
(*                    and its call of analyze_monthly_contributors         *)
(*   collector        a GitHubStatsCollector of github-stats-generator.py  *)
(*                    and the call in progress on it                       *)
(***************************************************************************)
VARIABLES pc, repo, use_parallel, init_args, max_workers, results,
          files_to_analyze, i, futures, ret, analysed, timed_out, prev,
          monthly, collector

vars == <<pc, repo, use_parallel, init_args, max_workers, results,
          files_to_analyze, i, futures, ret, analysed, timed_out, prev,
          monthly, collector>>

\* the variables of the AICodePatternAnalyzer
analyzer_vars == <<pc, repo, use_parallel, init_args, max_workers, results,
                   files_to_analyze, i, futures, ret, analysed, timed_out, prev>>

NoRepo == [root |-> << >>, files |-> << >>, access |-> "ok"]

NoRet == [total_lines |-> 0, ai_lines |-> 0, patterns |-> EmptyDict, of |-> 0]

NoPrev == [calls |-> 0, repo |-> NoRepo, use_parallel |-> FALSE, pc |-> "idle",
           results |-> InitialResults]

\* no analyzer or collector of the two other scripts has been made
\* Python's None, and a str of the given characters
None == [none |-> TRUE, text |-> << >>]

Str(chars) == [none |-> FALSE, text |-> chars]

NoMonthly ==
    [pc |-> "none", start_date |-> 0, end_date |-> 0, org |-> << >>,
     company_filter |-> None, monthly_commits |-> << >>, k |-> 0,
     contributors |-> << >>, e |-> 0, enriched |-> << >>, report |-> << >>]

NoCollector == [pc |-> "none"]

DefaultWorkerCap == 8

\* a default of the machine's cpu count alone
WorkersForUncapped(a) ==
    IF a.max_workers # 0 THEN a.max_workers ELSE a.cpu_count

\* __init__, line 26: max_workers or min(multiprocessing.cpu_count(), 8)
WorkersFor(a) ==
    IF a.max_workers # 0 THEN a.max_workers ELSE Min(a.cpu_count, DefaultWorkerCap)

\* __init__, lines 25-114, for the arguments in `given`
InitWith(given) ==
    /\ pc = "idle"
    /\ repo = NoRepo
    /\ use_parallel = FALSE
    /\ init_args \in given
    /\ max_workers = WorkersFor(init_args)
    /\ results = InitialResults
    /\ files_to_analyze = << >>
    /\ i = 0
    /\ futures = << >>
    /\ ret = NoRet
    /\ analysed = << >>
    /\ timed_out = {}
    /\ prev = NoPrev
    /\ monthly = NoMonthly
    /\ collector = NoCollector

\* analyzers made with and without a worker count, on a machine of
\* MaxWorkers cores
Constructions ==
    {[max_workers |-> w, cpu_count |-> MaxWorkers] : w \in 0..(MaxWorkers - 1)}

Init == InitWith(Constructions)

Returned == pc \in {"done", "raised"}

\* analyze_repository, lines 343-359: entry and reset
Begin(tree, parallel) ==
    /\ pc = "idle" \/ Returned
    /\ pc' = "discover"
    /\ repo' = tree
    /\ use_parallel' = parallel
    /\ results' = ResetResults(results)
    /\ files_to_analyze' = << >>
    /\ i' = 0
    /\ futures' = << >>
    /\ ret' = NoRet
    /\ analysed' = [j \in 1..Len(tree.files) |-> 0]
    /\ timed_out' = {}
    /\ prev' = IF Returned
               THEN [calls |-> prev.calls + 1, repo |-> repo,
                     use_parallel |-> use_parallel, pc |-> pc, results |-> results]
               ELSE prev
    /\ UNCHANGED <<max_workers, init_args, monthly, collector>>

\* a walk that hands the candidates on without storing the count of files
DiscoverUncounted ==
    /\ pc = "discover"
    /\ files_to_analyze' = Candidates(repo)
    /\ pc' = IF Candidates(repo) = << >> THEN "done"
             ELSE IF use_parallel /\ Len(Candidates(repo)) > ParallelThreshold
             THEN "parallel"
             ELSE "sequential"
    /\ UNCHANGED <<repo, use_parallel, max_workers, init_args, results, i, futures,
                   ret, analysed, timed_out, prev, monthly, collector>>

\* lines 370-393: the walk, the early return and the choice of strategy
Discover ==
    /\ pc = "discover"
    /\ files_to_analyze' = Candidates(repo)
    /\ results' = [results EXCEPT !.analysis_summary.total_files = Len(repo.files)]
    /\ pc' = IF Candidates(repo) = << >> THEN "done"
             ELSE IF use_parallel /\ Len(Candidates(repo)) > ParallelThreshold
             THEN "parallel"
             ELSE "sequential"
    /\ UNCHANGED <<repo, use_parallel, max_workers, init_args, i, futures, ret, analysed,
                   timed_out, prev, monthly, collector>>

Current == repo.files[files_to_analyze[i + 1]]

Entered(j) == [analysed EXCEPT ![j] = @ + 1]

Unpack(file, j) ==
    LET r == analyze_file_patterns(file)
    IN  [total_lines |-> r.total_lines, ai_lines |-> r.ai_lines,
         patterns |-> r.patterns, of |-> j]

\* _analyze_sequential, lines 418-423: one iteration whose call returns
SequentialStep ==
    /\ pc = "sequential"
    /\ i < Len(files_to_analyze)
    /\ Current.behaviour \in {"ok", "slow"}
    /\ LET r == Unpack(Current, files_to_analyze[i + 1])
       IN  /\ ret' = r
           /\ results' = _process_file_result(results, Current, r.total_lines,
                                              r.ai_lines, r.patterns)
    /\ analysed' = Entered(files_to_analyze[i + 1])
    /\ i' = i + 1
    /\ UNCHANGED <<pc, repo, use_parallel, max_workers, init_args, files_to_analyze, futures,
                   timed_out, prev, monthly, collector>>

\* line 422 when the call raises: nothing catches it up to the caller
SequentialRaise ==
    /\ pc = "sequential"
    /\ i < Len(files_to_analyze)
    /\ Current.behaviour = "raise"
    /\ analysed' = Entered(files_to_analyze[i + 1])
    /\ pc' = "raised"
    /\ UNCHANGED <<repo, use_parallel, max_workers, init_args, results, files_to_analyze, i,
                   futures, ret, timed_out, prev, monthly, collector>>

\* line 422 when the call never returns
SequentialHang ==
    /\ pc = "sequential"
    /\ i < Len(files_to_analyze)
    /\ Current.behaviour = "hang"
    /\ analysed' = Entered(files_to_analyze[i + 1])
    /\ pc' = "in_call"
    /\ UNCHANGED <<repo, use_parallel, max_workers, init_args, results, files_to_analyze, i,
                   futures, ret, timed_out, prev, monthly, collector>>

Running == {k \in 1..Len(futures) : futures[k] = "running"}

Queued == {k \in 1..Len(futures) : futures[k] = "queued"}

FileOf(k) == repo.files[files_to_analyze[k]]

\* _analyze_parallel, lines 401-403: every candidate is submitted, and the
\* pool's threads, at most max_workers, take the oldest items.  A thread's
\* dequeue is seen by no other thread; it is taken together with the step
\* that frees the thread.
Submit ==
    /\ pc = "parallel"
    /\ futures' = [k \in 1..Len(files_to_analyze) |->
                      IF k <= max_workers THEN "running" ELSE "queued"]
    /\ analysed' = [j \in 1..Len(analysed) |->
                       IF \E k \in 1..Min(max_workers, Len(files_to_analyze)) :
                              files_to_analyze[k] = j
                       THEN analysed[j] + 1 ELSE analysed[j]]
    /\ pc' = "collect"
    /\ UNCHANGED <<repo, use_parallel, max_workers, init_args, results, files_to_analyze, i,
                   ret, timed_out, prev, monthly, collector>>

\* a pool thread that would merge the result of its call by itself
WorkerFinishMerging(k) ==
    /\ k \in 1..Len(futures)
    /\ futures[k] = "running"
    /\ FileOf(k).behaviour # "hang"
    /\ LET ended == IF FileOf(k).behaviour = "raise" THEN "raised" ELSE "done"
           queue == Queued
           r == Unpack(FileOf(k), files_to_analyze[k])
       IN  /\ results' = IF ended = "done"
                         THEN _process_file_result(results, FileOf(k), r.total_lines,
                                                   r.ai_lines, r.patterns)
                         ELSE results
           /\ IF queue = {}
              THEN /\ futures' = [futures EXCEPT ![k] = ended]
                   /\ UNCHANGED analysed
              ELSE LET q == CHOOSE x \in queue : \A o \in queue : x <= o
                   IN  /\ futures' = [futures EXCEPT ![k] = ended, ![q] = "running"]
                       /\ analysed' = Entered(files_to_analyze[q])
    /\ UNCHANGED <<pc, repo, use_parallel, max_workers, init_args, files_to_analyze,
                   i, ret, timed_out, prev, monthly, collector>>

\* a pool thread's call of analyze_file_patterns ends and sets its future;
\* the thread goes on to the oldest queued item
WorkerFinish(k) ==
    /\ k \in 1..Len(futures)
    /\ futures[k] = "running"
    /\ FileOf(k).behaviour # "hang"
    /\ LET ended == IF FileOf(k).behaviour = "raise" THEN "raised" ELSE "done"
           queue == Queued
       IN  IF queue = {}
           THEN /\ futures' = [futures EXCEPT ![k] = ended]
                /\ UNCHANGED analysed
           ELSE LET q == CHOOSE x \in queue : \A o \in queue : x <= o
                IN  /\ futures' = [futures EXCEPT ![k] = ended, ![q] = "running"]
                    /\ analysed' = Entered(files_to_analyze[q])
    /\ UNCHANGED <<pc, repo, use_parallel, max_workers, init_args, results, files_to_analyze,
                   i, ret, timed_out, prev, monthly, collector>>

\* lines 410-412: result() of the next future returns and the result is merged
CollectResult ==
    /\ pc = "collect"
    /\ i < Len(files_to_analyze)
    /\ futures[i + 1] = "done"
    /\ LET r == Unpack(Current, files_to_analyze[i + 1])
       IN  /\ ret' = r
           /\ results' = _process_file_result(results, Current, r.total_lines,
                                              r.ai_lines, r.patterns)
    /\ i' = i + 1
    /\ UNCHANGED <<pc, repo, use_parallel, max_workers, init_args, files_to_analyze, futures,
                   analysed, timed_out, prev, monthly, collector>>

\* lines 413-414: result() re-raises the call's exception, which is printed
CollectError ==
    /\ pc = "collect"
    /\ i < Len(files_to_analyze)
    /\ futures[i + 1] = "raised"
    /\ i' = i + 1
    /\ UNCHANGED <<pc, repo, use_parallel, max_workers, init_args, results, files_to_analyze,
                   futures, ret, analysed, timed_out, prev, monthly, collector>>

\* The wait of result(timeout=60) can expire on a future whose call takes
\* longer than the timeout, and on one still queued behind calls that keep
\* every pool thread busy.
CanTimeOut(k) ==
    \/ futures[k] = "running" /\ FileOf(k).behaviour \in {"slow", "hang"}
    \/ futures[k] = "queued"
          /\ \A r \in Running : FileOf(r).behaviour \in {"slow", "hang"}

\* a wait that expires and is made again on the same future
CollectTimeoutRetrying ==
    /\ pc = "collect"
    /\ i < Len(files_to_analyze)
    /\ CanTimeOut(i + 1)
    /\ i + 1 \notin timed_out
    /\ timed_out' = timed_out \cup {i + 1}
    /\ UNCHANGED <<pc, repo, use_parallel, max_workers, init_args, results,
                   files_to_analyze, i, futures, ret, analysed, prev, monthly, collector>>

\* lines 411, 413-414: result() raises TimeoutError, which is printed
CollectTimeout ==
    /\ pc = "collect"
    /\ i < Len(files_to_analyze)
    /\ CanTimeOut(i + 1)
    /\ i' = i + 1
    /\ timed_out' = timed_out \cup {i + 1}
    /\ UNCHANGED <<pc, repo, use_parallel, max_workers, init_args, results, files_to_analyze,
                   futures, ret, analysed, prev, monthly, collector>>

\* line 401, leaving the with block: shutdown(wait=True) joins the pool threads
ExecutorExit ==
    /\ pc = "collect"
    /\ i = Len(files_to_analyze)
    /\ \A k \in 1..Len(futures) : futures[k] \in {"done", "raised"}
    /\ pc' = "joined"
    /\ UNCHANGED <<repo, use_parallel, max_workers, init_args, results, files_to_analyze, i,
                   futures, ret, analysed, timed_out, prev, monthly, collector>>

\* lines 395-397: _finalize_results and the return
Finalize ==
    /\ \/ pc = "sequential" /\ i = Len(files_to_analyze)
       \/ pc = "joined"
    /\ results' = _finalize_results(results)
    /\ pc' = "done"
    /\ UNCHANGED <<repo, use_parallel, max_workers, init_args, files_to_analyze, i, futures,
                   ret, analysed, timed_out, prev, monthly, collector>>

Scan ==
    \/ Discover
    \/ SequentialStep
    \/ SequentialRaise
    \/ SequentialHang
    \/ Submit
    \/ \E k \in 1..Len(futures) : WorkerFinish(k)
    \/ CollectResult
    \/ CollectError
    \/ CollectTimeout
    \/ ExecutorExit
    \/ Finalize

\* main, lines 620-632: a local path that exists is scanned
FirstCall ==
    /\ pc = "idle"
    /\ \E tree \in Trees, parallel \in BOOLEAN :
          /\ tree.access # "missing"
          /\ Begin(tree, parallel)

\* main, lines 622-624: a local path that does not exist ends the run
MainRefuse ==
    /\ pc = "idle"
    /\ \E tree \in Trees :
          /\ tree.access = "missing"
          /\ repo' = tree
    /\ pc' = "refused"
    /\ UNCHANGED <<use_parallel, max_workers, init_args, results, files_to_analyze,
                   i, futures, ret, analysed, timed_out, prev, monthly, collector>>

Next == FirstCall \/ MainRefuse \/ Scan

Spec == Init /\ [][Next]_vars

(***************************************************************************)
(* The same calls under the scheduling the interpreter gives: while some   *)
(* thread of the call can take a step, a step is taken, and a wait with a  *)
(* timeout expires.  A scan has finitely many steps, so every thread that   *)
(* can step does.  A call that never returns has no step.                  *)
(***************************************************************************)
Fairness == WF_vars(Scan)

\* trees of files in which no rule matches
PlainFillers(n) == [j \in 1..n |-> PlainFile(FillerNames[j], ".py", 10)]

NapPy == [PlainFile("nap.py", ".py", 20) EXCEPT !.behaviour = "slow"]

FairPalette == <<OomPy, NapPy, HangPy>>

FairTrees ==
    {[root |-> Root, files |-> p, access |-> "ok"] : p \in Picks(<<APy>> \o FairPalette, MaxSpecial)}
    \cup
    {[root |-> Root, files |-> p \o PlainFillers(ParallelThreshold), access |-> "ok"] :
        p \in Picks(FairPalette, 1)}

FairCall == pc = "idle" /\ \E tree \in FairTrees, parallel \in BOOLEAN : Begin(tree, parallel)

NextFair == FairCall \/ Scan

SpecFair == Init /\ [][NextFair]_vars /\ Fairness

(***************************************************************************)
(* Analyzers made without a worker count on machines of 1 to MaxCpus cores *)
(* and with a worker count.  The thread pool is followed for pools of at   *)
(* most MaxWorkers threads.                                                *)
(***************************************************************************)
MaxCpus == 9

PoolConstructions ==
    {[max_workers |-> w, cpu_count |-> c] : w \in 0..MaxWorkers, c \in 1..MaxCpus}

InitPool == InitWith(PoolConstructions)

PoolTrees ==
    {[root |-> Root, files |-> PlainFillers(n), access |-> "ok"] :
        n \in {1, ParallelThreshold + 1}}

PoolCall ==
    /\ pc = "idle"
    /\ \E tree \in PoolTrees, parallel \in BOOLEAN :
          /\ parallel => max_workers <= MaxWorkers
          /\ Begin(tree, parallel)

NextPool ==
    \/ PoolCall
    \/ Discover
    \/ SequentialStep
    \/ Submit
    \/ \E k \in 1..Len(futures) : WorkerFinish(k)
    \/ CollectResult
    \/ ExecutorExit
    \/ Finalize

SpecPool == InitPool /\ [][NextPool]_vars

(***************************************************************************)
(* Several calls of analyze_repository on one analyzer.                    *)
(***************************************************************************)
MaxCalls == 2

RescanTrees ==
    {[root |-> Root, files |-> p, access |-> "ok"] :
        p \in {<< >>, <<CTxt>>, <<APy>>, <<EmptyPy>>, <<APy, BPy>>,
               <<OomPy>> \o Fillers(ParallelThreshold),
               <<HangPy>> \o Fillers(ParallelThreshold)}}

NextCall ==
    /\ Returned
    /\ prev.calls + 1 < MaxCalls
    /\ \E tree \in RescanTrees, parallel \in BOOLEAN : Begin(tree, parallel)

FirstRescanCall ==
    pc = "idle" /\ \E tree \in RescanTrees, parallel \in BOOLEAN : Begin(tree, parallel)

NextRescan == FirstRescanCall \/ NextCall \/ Scan

SpecRescan == Init /\ [][NextRescan]_vars

(***************************************************************************)
(* Calls on trees of one file, over a range of line counts and scores.     *)
(***************************************************************************)
MaxLines == 40

MaxScore == 8

EdgeLines == {100, 125, 200, 500, 624, 625, 626, 628, 1000, 9999, 10000}

EdgeScores == {40, 50, 79, 80}

MapFile(lines, score) ==
    [PlainFile("m.py", ".py", lines) EXCEPT
        !.rx = IF score = 0 THEN EmptyDict ELSE (<<"general", "magic_numbers">> :> score)]

MapTrees ==
    {[root |-> Root, files |-> <<MapFile(lines, score)>>, access |-> "ok"] :
        lines \in (1..MaxLines) \cup EdgeLines, score \in (0..MaxScore) \cup EdgeScores}

MapCall == pc = "idle" /\ \E tree \in MapTrees : Begin(tree, TRUE)

NextMap == MapCall \/ Discover \/ SequentialStep \/ Finalize

SpecMap == Init /\ [][NextMap]_vars

(***************************************************************************)
(* org-contributor.py: MonthlyContributorAnalyzer.  Dates are day numbers. *)
(* A string of a profile is a sequence of characters; None stands for      *)
(* Python's None (a JSON null, or a key that is absent from the profile).  *)
(***************************************************************************)
\* __init__, line 36: timedelta(days=90)
WindowDays == 90

\* analyze_monthly_contributors, line 297: "analysis_period": "Last 30 days"
ReportedDays == 30

ToLower ==
    ("A" :> "a") @@ ("C" :> "c") @@ ("E" :> "e") @@ ("L" :> "l") @@ ("M" :> "m")
    @@ ("O" :> "o") @@ ("R" :> "r") @@ ("T" :> "t") @@ ("H" :> "h")

\* str.lower()
StrLower(s) == [j \in 1..Len(s) |-> IF s[j] \in DOMAIN ToLower THEN ToLower[s[j]] ELSE s[j]]

\* str.lstrip(chars)
RECURSIVE LStrip(_, _)
LStrip(s, chars) ==
    IF s # << >> /\ Head(s) \in chars THEN LStrip(Tail(s), chars) ELSE s

RECURSIVE RStrip(_, _)
RStrip(s, chars) ==
    IF s # << >> /\ s[Len(s)] \in chars THEN RStrip(SubSeq(s, 1, Len(s) - 1), chars) ELSE s

\* str.strip()
Strip(s) == RStrip(LStrip(s, {" "}), {" "})

\* needle in hay
Contains(needle, hay) ==
    \E at \in 0..(Len(hay) - Len(needle)) : SubSeq(hay, at + 1, at + Len(needle)) = needle

\* get_user_details, lines 119-139: a dict with the profile's "company"
\* (None for a null or a missing key) for a 200 response, {} otherwise
Profile(company) == [status |-> 200, company |-> company]

Unavailable == [status |-> 404, company |-> None]

\* user_details.get("company", ""): the default is taken when the dict has
\* no such key, that is for {} alone
CompanyOrDefault(profile) ==
    IF profile.status = 200 THEN profile.company ELSE Str(<< >>)

\* user_details.get("company")
CompanyOf(profile) == IF profile.status = 200 THEN profile.company ELSE None

\* lines 199-200 and 232-233: .strip().lower() and .lstrip("@")
NormalizedCompany(company) == LStrip(StrLower(Strip(company.text)), {"@"})

\* lines 202 and 235: company_filter.lower() not in user_company
PassesFilter(company_filter, company) ==
    Contains(StrLower(company_filter.text), NormalizedCompany(company))

\* the inputs: profiles, commits with their age in days at the time of the
\* run, and whether the organization has a repository updated in the window
AcmeAt == Str(<<" ", "@", "A", "c", "m", "e", " ">>)

AcmeLabs == Str(<<"a", "c", "m", "e", "-", "l", "a", "b", "s">>)

OtherCo == Str(<<"O", "t", "h", "e", "r">>)

Users == {"u1", "u2", "u3"}

ProfileKinds ==
    {Profile(AcmeAt), Profile(AcmeLabs), Profile(OtherCo), Profile(None), Unavailable}

CommitLists ==
    {<< >>,
     <<[login |-> "u1", age |-> 10], [login |-> "u2", age |-> 60],
       [login |-> "u1", age |-> 20], [login |-> "", age |-> 5],
       [login |-> "u3", age |-> 100], [login |-> "u2", age |-> 29]>>,
     <<[login |-> "u3", age |-> 1], [login |-> "u3", age |-> 2],
       [login |-> "u1", age |-> 89]>>}

MonthlyOrgs ==
    {[active_repos |-> n, commits |-> c, profiles |-> p] :
        n \in {0, 1}, c \in CommitLists, p \in [Users -> ProfileKinds]}

CompanyFilters == {None, Str(<<"a", "c", "m", "e">>), Str(<<"A", "C", "M", "E">>)}

Days == {1000}

\* __init__, lines 34-38
MakeMonthly ==
    /\ monthly.pc = "none"
    /\ \E now \in Days :
          monthly' = [monthly EXCEPT !.pc = "made",
                                     !.end_date = now,
                                     !.start_date = now - WindowDays]
    /\ UNCHANGED <<analyzer_vars, collector>>

\* get_monthly_commits, lines 82-117: the API returns the commits between
\* since and until
CommitsInWindow(org, since, until) ==
    SelectSeq(org.commits,
              LAMBDA c : since <= until - c.age /\ until - c.age <= until)

\* analyze_monthly_contributors, lines 141-176: the repositories and the
\* commits are fetched; without an active repository {} is returned
MonthlyCall ==
    /\ monthly.pc = "made"
    /\ \E org \in MonthlyOrgs, company_filter \in CompanyFilters :
          monthly' = [monthly EXCEPT
              !.org = org,
              !.company_filter = company_filter,
              !.monthly_commits =
                  IF org.active_repos = 0 THEN << >>
                  ELSE CommitsInWindow(org, monthly.start_date, monthly.end_date),
              !.pc = IF org.active_repos = 0 THEN "no_repos" ELSE "commits"]
    /\ UNCHANGED <<analyzer_vars, collector>>

Tracked(username) ==
    \E c \in 1..Len(monthly.contributors) : monthly.contributors[c].username = username

\* contributors[username]["commits"] += 1, in the dict's insertion order
Track(contributors, username) ==
    IF \E c \in 1..Len(contributors) : contributors[c].username = username
    THEN [c \in 1..Len(contributors) |->
             IF contributors[c].username = username
             THEN [contributors[c] EXCEPT !.commits = @ + 1] ELSE contributors[c]]
    ELSE Append(contributors, [username |-> username, commits |-> 1])

\* lines 178-216: one commit of the loop
CommitStep ==
    /\ monthly.pc = "commits"
    /\ monthly.k < Len(monthly.monthly_commits)
    /\ LET username == monthly.monthly_commits[monthly.k + 1].login
           profile  == monthly.org.profiles[username]
           checked  == ~monthly.company_filter.none /\ ~Tracked(username)
       IN  monthly' =
             IF username = "" THEN [monthly EXCEPT !.k = @ + 1]
             ELSE IF checked /\ CompanyOrDefault(profile).none
             THEN [monthly EXCEPT !.pc = "raised"]
             ELSE IF checked
                     /\ ~PassesFilter(monthly.company_filter, CompanyOrDefault(profile))
             THEN [monthly EXCEPT !.k = @ + 1]
             ELSE [monthly EXCEPT !.k = @ + 1,
                                  !.contributors = Track(@, username)]
    /\ UNCHANGED <<analyzer_vars, collector>>

\* lines 218-220: the loop over the commits has ended
CommitsDone ==
    /\ monthly.pc = "commits"
    /\ monthly.k = Len(monthly.monthly_commits)
    /\ monthly' = [monthly EXCEPT !.pc = "enrich"]
    /\ UNCHANGED <<analyzer_vars, collector>>

\* lines 223-261: one contributor of the enrichment loop
EnrichStep ==
    /\ monthly.pc = "enrich"
    /\ monthly.e < Len(monthly.contributors)
    /\ LET activity == monthly.contributors[monthly.e + 1]
           profile  == monthly.org.profiles[activity.username]
           checked  == ~monthly.company_filter.none
       IN  monthly' =
             IF checked /\ CompanyOrDefault(profile).none
             THEN [monthly EXCEPT !.pc = "raised"]
             ELSE IF checked
                     /\ ~PassesFilter(monthly.company_filter, CompanyOrDefault(profile))
             THEN [monthly EXCEPT !.e = @ + 1]
             ELSE [monthly EXCEPT
                      !.e = @ + 1,
                      !.enriched = Append(@, [username        |-> activity.username,
                                              company         |-> CompanyOf(profile),
                                              monthly_commits |-> activity.commits])]
    /\ UNCHANGED <<analyzer_vars, collector>>

\* sort(key=monthly_commits, reverse=True): stable
RankByCommits(seq, j) ==
    1 + Cardinality({k \in 1..Len(seq) :
                        \/ seq[k].monthly_commits > seq[j].monthly_commits
                        \/ k < j /\ seq[k].monthly_commits = seq[j].monthly_commits})

SortByCommits(seq) ==
    [r \in 1..Len(seq) |-> seq[CHOOSE j \in 1..Len(seq) : RankByCommits(seq, j) = r]]

\* lines 263-317: the ranking and the returned report
MonthlyReport ==
    /\ monthly.pc = "enrich"
    /\ monthly.e = Len(monthly.contributors)
    /\ LET ranked == SortByCommits(monthly.enriched)
       IN  monthly' = [monthly EXCEPT
              !.pc = "returned",
              !.report =
                  [analysis_period |-> ReportedDays,
                   start_date      |-> monthly.start_date,
                   end_date        |-> monthly.end_date,
                   total_commits   |-> Len(monthly.monthly_commits),
                   contributors    |->
                       [r \in 1..Len(ranked) |->
                           [username        |-> ranked[r].username,
                            company         |-> ranked[r].company,
                            monthly_commits |-> ranked[r].monthly_commits,
                            rank            |-> r]]]]
    /\ UNCHANGED <<analyzer_vars, collector>>

\* no AICodePatternAnalyzer call is made in the runs of the other scripts
InitAnalyzerIdle == InitWith({[max_workers |-> 1, cpu_count |-> 1]})

NextMonthly ==
    MakeMonthly \/ MonthlyCall \/ CommitStep \/ CommitsDone \/ EnrichStep \/ MonthlyReport

SpecMonthly == InitAnalyzerIdle /\ [][NextMonthly]_vars

(***************************************************************************)
(* github-stats-generator.py: GitHubStatsCollector.  A repository name is  *)
(* a sequence of tokens, "/" being the separator.                          *)
(***************************************************************************)
\* get_organization_repos, line 255: per_page = 100
PerPage == 100

MaxRepos == 250

MaxFailPage == 4

\* f"{org_name}/{repo['name']}", line 275
FullName(org_name, name) == <<org_name, "/", name>>

\* the organizations: the number of their repositories, named "1", "2", ...
\* in the order of the listing, and the page whose request is answered with
\* a status other than 200 (0: none)
Orgs ==
    {[name |-> "acme", size |-> n, fail_at |-> f] :
        n \in 0..MaxRepos, f \in 0..MaxFailPage}

\* the API's answer to the request of a page of per_page repositories
PageResponse(org, page) ==
    IF page = org.fail_at
    THEN [status_code |-> 403, json |-> << >>]
    ELSE [status_code |-> 200,
          json |-> [j \in 1..IF page * PerPage <= org.size THEN PerPage
                            ELSE IF (page - 1) * PerPage < org.size
                                 THEN org.size - (page - 1) * PerPage
                                 ELSE 0
                    |-> [name |-> ToString((page - 1) * PerPage + j)]]]

\* get_organization_repos, lines 240-255
ReposCall ==
    /\ collector.pc = "none"
    /\ \E org \in Orgs :
          collector' = [pc |-> "paging", org |-> org, page |-> 1,
                        repos |-> << >>, requested |-> << >>]
    /\ UNCHANGED <<analyzer_vars, monthly>>

\* a loop that goes on to the next page after a failed request
PageStepPastFailure ==
    /\ collector.pc = "paging"
    /\ LET response   == PageResponse(collector.org, collector.page)
           page_repos == response.json
           asked      == Append(collector.requested, collector.page)
       IN  collector' =
             IF response.status_code = 200 /\ page_repos # << >>
             THEN [collector EXCEPT
                      !.requested = asked,
                      !.repos = @ \o [j \in 1..Len(page_repos) |->
                                         FullName(collector.org.name, page_repos[j].name)],
                      !.page = @ + 1]
             ELSE IF response.status_code # 200
             THEN [collector EXCEPT !.requested = asked, !.page = @ + 1]
             ELSE [collector EXCEPT !.requested = asked, !.pc = "returned"]
    /\ UNCHANGED <<analyzer_vars, monthly>>

\* lines 256-281: one turn of the while loop, requested being the pages
\* asked of the API so far
PageStep ==
    /\ collector.pc = "paging"
    /\ LET response   == PageResponse(collector.org, collector.page)
           page_repos == response.json
           asked      == Append(collector.requested, collector.page)
       IN  collector' =
             IF response.status_code = 200 /\ page_repos # << >>
             THEN [collector EXCEPT
                      !.requested = asked,
                      !.repos = @ \o [j \in 1..Len(page_repos) |->
                                         FullName(collector.org.name, page_repos[j].name)],
                      !.page = @ + 1]
             ELSE [collector EXCEPT !.requested = asked, !.pc = "returned"]
    /\ UNCHANGED <<analyzer_vars, monthly>>

NextRepos == ReposCall \/ PageStep

\* the loop's turns follow one another while the call runs
SpecRepos == InitAnalyzerIdle /\ [][NextRepos]_vars /\ WF_vars(PageStep)

\* "/" in repo_name, line 301
HasSlash(repo_name) == \E at \in 1..Len(repo_name) : repo_name[at] = "/"

\* repo_name.split("/", 1), line 305: the parts around the first "/"
SplitOnce(repo_name) ==
    LET at == CHOOSE a \in 1..Len(repo_name) :
                  /\ repo_name[a] = "/"
                  /\ \A b \in 1..(a - 1) : repo_name[b] # "/"
    IN  [owner |-> SubSeq(repo_name, 1, at - 1),
         repo  |-> SubSeq(repo_name, at + 1, Len(repo_name))]

MaxNames == 3

\* the names given to rank_repos_by_commits
RepoNames ==
    {<<"o", "/", "a">>, <<"o", "/", "b">>, <<"o", "/", "c">>,
     <<"o", "a">>, <<"o", "/", "a", "/", "x">>}

RECURSIVE ListsOf(_, _)
ListsOf(S, n) ==
    IF n = 0 THEN {<< >>}
    ELSE LET shorter == ListsOf(S, n - 1)
         IN  shorter \cup {Append(l, x) : l \in {s \in shorter : Len(s) = n - 1}, x \in S}

\* what the API holds of a repository: the status of /repos/{owner}/{repo},
\* and of its /commits the status, the last page of the Link header (0: no
\* "last" relation) and the number of commits of the unpaged listing
Gone == [info |-> 404, commits |-> 404, link_last |-> 0, listed |-> 0]

Paged == [info |-> 200, commits |-> 200, link_last |-> 3, listed |-> 1]

Unpaged == [info |-> 200, commits |-> 200, link_last |-> 0, listed |-> 1]

Emptied == [info |-> 200, commits |-> 409, link_last |-> 0, listed |-> 0]

Hosts == [{<<"a">>, <<"b">>, <<"c">>} -> {Gone, Paged, Unpaged, Emptied}]

Hosted(host, owner, repository) ==
    IF owner = <<"o">> /\ repository \in DOMAIN host THEN host[repository] ELSE Gone

\* get_repo_info, lines 33-42: the JSON of a 200 response, None otherwise
get_repo_info(host, owner, repository) ==
    IF Hosted(host, owner, repository).info = 200
    THEN [none |-> FALSE, name |-> repository]
    ELSE [none |-> TRUE, name |-> << >>]

\* get_commit_stats, lines 81-111
get_commit_stats(host, owner, repository) ==
    LET answer == Hosted(host, owner, repository)
    IN  IF answer.commits = 200
        THEN [total_commits |-> IF answer.link_last > 0 THEN answer.link_last
                                ELSE answer.listed]
        ELSE [total_commits |-> 0]

\* rank_repos_by_commits, lines 286-298
RankCall ==
    /\ collector.pc = "none"
    /\ \E repositories \in ListsOf(RepoNames, MaxNames), host \in Hosts :
          collector' = [pc |-> "ranking", repositories |-> repositories,
                        host |-> host, n |-> 0, repo_stats |-> << >>,
                        ranked_repos |-> << >>]
    /\ UNCHANGED <<analyzer_vars, monthly>>

\* lines 300-330: one name of the loop
RankStep ==
    /\ collector.pc = "ranking"
    /\ collector.n < Len(collector.repositories)
    /\ LET repo_name == collector.repositories[collector.n + 1]
           parts     == SplitOnce(repo_name)
           repo_info == get_repo_info(collector.host, parts.owner, parts.repo)
           commit_stats == get_commit_stats(collector.host, parts.owner, parts.repo)
       IN  collector' =
             IF ~HasSlash(repo_name) THEN [collector EXCEPT !.n = @ + 1]
             ELSE IF repo_info.none THEN [collector EXCEPT !.n = @ + 1]
             ELSE [collector EXCEPT
                      !.n = @ + 1,
                      !.repo_stats =
                          Append(@, [repository    |-> repo_name,
                                     name          |-> repo_info.name,
                                     total_commits |-> commit_stats.total_commits])]
    /\ UNCHANGED <<analyzer_vars, monthly>>

\* sorted(key=total_commits, reverse=True): stable
RankByTotal(seq, j) ==
    1 + Cardinality({k \in 1..Len(seq) :
                        \/ seq[k].total_commits > seq[j].total_commits
                        \/ k < j /\ seq[k].total_commits = seq[j].total_commits})

SortByTotal(seq) ==
    [r \in 1..Len(seq) |-> seq[CHOOSE j \in 1..Len(seq) : RankByTotal(seq, j) = r]]

\* a ranking that numbers the entries in the order of the input
RankFinishUnsorted ==
    /\ collector.pc = "ranking"
    /\ collector.n = Len(collector.repositories)
    /\ collector' = [collector EXCEPT
          !.pc = "ranked",
          !.ranked_repos =
              [r \in 1..Len(collector.repo_stats) |->
                  [repository    |-> collector.repo_stats[r].repository,
                   name          |-> collector.repo_stats[r].name,
                   total_commits |-> collector.repo_stats[r].total_commits,
                   rank          |-> r]]]
    /\ UNCHANGED <<analyzer_vars, monthly>>

\* lines 332-340: the sort and the rank fields
RankFinish ==
    /\ collector.pc = "ranking"
    /\ collector.n = Len(collector.repositories)
    /\ LET ranked == SortByTotal(collector.repo_stats)
       IN  collector' = [collector EXCEPT
              !.pc = "ranked",
              !.ranked_repos =
                  [r \in 1..Len(ranked) |->
                      [repository    |-> ranked[r].repository,
                       name          |-> ranked[r].name,
                       total_commits |-> ranked[r].total_commits,
                       rank          |-> r]]]
    /\ UNCHANGED <<analyzer_vars, monthly>>

NextRank == RankCall \/ RankStep \/ RankFinish

SpecRank == InitAnalyzerIdle /\ [][NextRank]_vars

\* get_organization_repos, lines 240-284, as a function: the repositories
\* read from the given page on, after those already read
RECURSIVE ReposFromPage(_, _, _)
ReposFromPage(org, page, repos) ==
    LET response   == PageResponse(org, page)
        page_repos == response.json
    IN  IF response.status_code = 200 /\ page_repos # << >>
        THEN ReposFromPage(org, page + 1,
                           repos \o [j \in 1..Len(page_repos) |->
                                        FullName(org.name, page_repos[j].name)])
        ELSE repos

get_organization_repos(org) == ReposFromPage(org, 1, << >>)

MaxOrgRepos == 2

Logins == <<"u1", "u2">>

\* the contributions of a login to a repository, 0: not a contributor
ContributionCounts == {0, 2, 3, 6}

MinContributions == {1, 5}

\* the organizations of the contributor analysis: their repositories and,
\* for each, the contributions of each login
ContributorOrgs ==
    UNION {[name : {"acme"}, size : {n}, fail_at : {0, 1},
            contributions : [1..n -> [{"u1", "u2"} -> ContributionCounts]]] :
              n \in 0..MaxOrgRepos}

\* get_contributor_details, lines 435-474: the contributors of the
\* repository as the API lists them
get_contributor_details(org, owner, repository) ==
    LET j    == CHOOSE k \in 1..org.size : repository = <<ToString(k)>>
        rows == [l \in 1..Len(Logins) |->
                    [login |-> Logins[l], contributions |-> org.contributions[j][Logins[l]]]]
    IN  SelectSeq(rows, LAMBDA row : row.contributions > 0)

\* analyze_org_contributors, lines 498-522
ContributorsCall ==
    /\ collector.pc = "none"
    /\ \E org \in ContributorOrgs, min_contributions \in MinContributions :
          LET org_repos == get_organization_repos(org)
          IN  collector' = [pc |-> IF org_repos = << >> THEN "no_repos" ELSE "contributors",
                            org |-> org, min_contributions |-> min_contributions,
                            org_repos |-> org_repos, n |-> 0,
                            all_contributors |-> << >>, contributors_list |-> << >>]
    /\ UNCHANGED <<analyzer_vars, monthly>>

\* lines 535-559: one contributor of a repository, all_contributors being in
\* the dict's insertion order
Contribute(all_contributors, min_contributions, repo_name, contributor) ==
    IF contributor.contributions < min_contributions THEN all_contributors
    ELSE LET known == \E c \in 1..Len(all_contributors) :
                          all_contributors[c].login = contributor.login
             with  == IF known THEN all_contributors
                      ELSE Append(all_contributors,
                                  [login |-> contributor.login,
                                   total_contributions |-> 0,
                                   repositories_contributed |-> << >>])
         IN  [c \in 1..Len(with) |->
                 IF with[c].login = contributor.login
                 THEN [with[c] EXCEPT
                          !.total_contributions = @ + contributor.contributions,
                          !.repositories_contributed =
                              Append(@, [repository    |-> repo_name,
                                         contributions |-> contributor.contributions])]
                 ELSE with[c]]

RECURSIVE ContributeAll(_, _, _, _)
ContributeAll(all_contributors, min_contributions, repo_name, repo_contributors) ==
    IF repo_contributors = << >> THEN all_contributors
    ELSE ContributeAll(Contribute(all_contributors, min_contributions, repo_name,
                                  Head(repo_contributors)),
                       min_contributions, repo_name, Tail(repo_contributors))

\* lines 524-559: one repository of the loop
ContributorsStep ==
    /\ collector.pc = "contributors"
    /\ collector.n < Len(collector.org_repos)
    /\ LET repo_name == collector.org_repos[collector.n + 1]
           parts     == SplitOnce(repo_name)
           repo_contributors ==
               get_contributor_details(collector.org, parts.owner, parts.repo)
       IN  collector' = [collector EXCEPT
              !.n = @ + 1,
              !.all_contributors =
                  ContributeAll(@, collector.min_contributions, repo_name,
                                repo_contributors)]
    /\ UNCHANGED <<analyzer_vars, monthly>>

\* sort(key=total_contributions, reverse=True): stable
RankByContributions(seq, j) ==
    1 + Cardinality({k \in 1..Len(seq) :
                        \/ seq[k].total_contributions > seq[j].total_contributions
                        \/ k < j /\ seq[k].total_contributions = seq[j].total_contributions})

SortByContributions(seq) ==
    [r \in 1..Len(seq) |->
        seq[CHOOSE j \in 1..Len(seq) : RankByContributions(seq, j) = r]]

\* lines 561-626: the repository counts, the sort and the ranks
ContributorsFinish ==
    /\ collector.pc = "contributors"
    /\ collector.n = Len(collector.org_repos)
    /\ LET sorted == SortByContributions(collector.all_contributors)
       IN  collector' = [collector EXCEPT
              !.pc = "analysed",
              !.contributors_list =
                  [r \in 1..Len(sorted) |->
                      [login               |-> sorted[r].login,
                       total_contributions |-> sorted[r].total_contributions,
                       repository_count    |-> Len(sorted[r].repositories_contributed),
                       rank                |-> r]]]
    /\ UNCHANGED <<analyzer_vars, monthly>>

NextContributors == ContributorsCall \/ ContributorsStep \/ ContributorsFinish

SpecContributors == InitAnalyzerIdle /\ [][NextContributors]_vars

(***************************************************************************)
(* Properties.                                                             *)
(***************************************************************************)
Merged(k) ==
    \E e \in 1..Len(results.file_analysis) :
        results.file_analysis[e].path = FileOf(k).dirs \o <<FileOf(k).name>>

NCandidates == Len(files_to_analyze)

\* C1: in both strategies an exception or timeout of the analysis of one
\* candidate is caught: the call never ends by raising, and when it returns
\* that candidate is left out and every other candidate has been merged.
C1_PerFileFailureContained ==
    /\ pc # "raised"
    /\ pc = "done" =>
          \A k \in 1..NCandidates :
              /\ (FileOf(k).behaviour = "raise" \/ k \in timed_out) => ~Merged(k)
              /\ (FileOf(k).behaviour = "ok" /\ k \notin timed_out) => Merged(k)

AggregateFields(res) ==
    [analyzed_files |-> res.analysis_summary.analyzed_files,
     total_lines |-> res.analysis_summary.total_lines,
     ai_pattern_lines |-> res.analysis_summary.ai_pattern_lines,
     language_breakdown |-> res.language_breakdown,
     pattern_details |-> res.pattern_details,
     file_analysis |-> res.file_analysis,
     top_ai_files |-> res.top_ai_files]

\* C2: a call that follows a call on the same tree ends as that call ended
\* and returns the same aggregate fields, whatever strategy each of them
\* used.
C2_RescanAgrees ==
    (Returned /\ prev.calls > 0 /\ prev.repo = repo) =>
        /\ pc = prev.pc
        /\ AggregateFields(results) = AggregateFields(prev.results)

\* the aggregate of the candidates ks, merged in their order into res
RECURSIVE MergeAll(_, _)
MergeAll(res, ks) ==
    IF ks = << >> THEN res
    ELSE LET file == FileOf(ks[Len(ks)])
             before == MergeAll(res, SubSeq(ks, 1, Len(ks) - 1))
             r == analyze_file_patterns(file)
         IN  IF file.behaviour \in {"ok", "slow"}
             THEN _process_file_result(before, file, r.total_lines, r.ai_lines, r.patterns)
             ELSE before

OrderFreeAggregate ==
    _finalize_results(
        MergeAll([InitialResults EXCEPT !.analysis_summary.total_files = Len(repo.files)],
                 [k \in 1..NCandidates |-> k]))

\* C3: what the thread-pool strategy returns depends on the candidate list
\* alone: it is the aggregate of the candidates whose analysis returns,
\* merged in discovery order, whatever the order in which the pool threads
\* ended.
C3_PoolOrderIndependent ==
    (pc = "done" /\ futures # << >>) =>
        AggregateFields(results) = AggregateFields(OrderFreeAggregate)

\* C4: once the candidates are known the call returns, also when the
\* analysis of one candidate never ends.
C4_ScanReturns == (pc \in {"sequential", "parallel"}) ~> Returned

Unanalysable(file) == ~file.readable \/ file.size > MaxFileSize

\* C5: a candidate that cannot be read, or that is above the size cap, is
\* counted in total_files and nowhere else: not in analyzed_files, not in
\* its language's files, not in the per-file list.
C5_UnreadableNotCounted ==
    LET merged == {k \in 1..NCandidates : Merged(k)}
        good   == {k \in merged : ~Unanalysable(FileOf(k))}
    IN  /\ pc = "done" => results.analysis_summary.total_files = Len(repo.files)
        /\ \A k \in merged : ~Unanalysable(FileOf(k))
        /\ results.analysis_summary.analyzed_files = Cardinality(good)
        /\ \A l \in DOMAIN results.language_breakdown :
              results.language_breakdown[l].files =
                  Cardinality({k \in good : detect_language(FileOf(k)) = l})

UnderSkipDir(file) == \E d \in 1..Len(file.dirs) : file.dirs[d] \in skip_dirs

Recognized(file) == Lower(file.suffix) \in code_extensions

\* C6: a file below a directory named in skip_dirs, at any depth, is never
\* a candidate, never given to analyze_file_patterns, in no per-file result,
\* and not counted in analyzed_files.
C6_SkippedDirsNeverAnalysed ==
    /\ \A j \in 1..Len(repo.files) :
          UnderSkipDir(repo.files[j]) =>
              /\ analysed[j] = 0
              /\ \A k \in 1..NCandidates : files_to_analyze[k] # j
              /\ \A e \in 1..Len(results.file_analysis) :
                    results.file_analysis[e].path
                        # repo.files[j].dirs \o <<repo.files[j].name>>
    /\ results.analysis_summary.analyzed_files
          <= Cardinality({j \in 1..Len(repo.files) :
                             Recognized(repo.files[j]) /\ ~UnderSkipDir(repo.files[j])})

\* a finished call whose tree holds a recognized file two directories or
\* more below the root, under a skipped one, beside an analysed file
C6_Witness ==
    /\ pc = "done"
    /\ results.analysis_summary.analyzed_files > 0
    /\ \E j \in 1..Len(repo.files) :
          /\ UnderSkipDir(repo.files[j])
          /\ Recognized(repo.files[j])
          /\ Len(repo.files[j].dirs) > 1
          /\ repo.files[j].dirs[1] \notin skip_dirs

\* C7: every returned tuple and every per-file entry has
\* 0 <= ai_pattern_lines <= total_lines.
C7_PatternLinesWithinLines ==
    /\ 0 <= ret.ai_lines /\ ret.ai_lines <= ret.total_lines
    /\ \A e \in 1..Len(results.file_analysis) :
          /\ 0 <= results.file_analysis[e].ai_pattern_lines
          /\ results.file_analysis[e].ai_pattern_lines
                <= results.file_analysis[e].total_lines

\* a merged result of the dense tier, at the cap, in a file of few lines
C7_Witness ==
    /\ ret.of # 0
    /\ DictSum(ret.patterns) >= SparseScore
    /\ ret.total_lines < 10
    /\ ret.ai_lines > 0
    /\ Len(results.file_analysis) = 1

\* the three tiers over the rationals: floor(min(100 * score, 4/5 * lines))
ReferenceLines(total_lines, pattern_score) ==
    IF pattern_score = 0 THEN 0
    ELSE IF pattern_score < 5 THEN Min(pattern_score, total_lines \div 10)
    ELSE Min(100 * pattern_score, (4 * total_lines) \div 5)

\* C8: for a file of five lines or more the returned ai_lines is the
\* reference mapping of its line count and score.
C8_MappingIsReference ==
    (ret.of # 0 /\ ret.total_lines >= 5) =>
        ret.ai_lines = ReferenceLines(ret.total_lines, DictSum(ret.patterns))

\* the counts of the three sources for one name on the file of ret
SourceCount(file, name) ==
    LET language == detect_language(file)
    IN  (IF language \in DOMAIN ai_patterns /\ language # "general"
         THEN RegexMatches(file, language, name) ELSE 0)
        + RegexMatches(file, "general", name)
        + DictGet(analyze_complexity_fast(file.text), name)
        + (IF language = "python" /\ LineCount(file) < AstLineLimit
           THEN DictGet(analyze_python_ast(file), name) ELSE 0)

AllNames ==
    UNION {ai_patterns[sc] : sc \in DOMAIN ai_patterns}
    \cup {"long_lines", "deep_nesting", "excessive_comments", "verbose_docstrings",
          "generic_function_names", "excessive_exception_handling",
          "generic_variable_names", "lambda_overuse", "nested_functions"}

\* C9: the count returned for a name is the sum of what the text rules, the
\* line heuristics and the syntax tree found for it.
C9_CountsAreSummed ==
    (ret.of # 0 /\ ret.total_lines >= MinLines) =>
        \A name \in AllNames :
            DictGet(ret.patterns, name) = SourceCount(repo.files[ret.of], name)

InTop(entry) ==
    \E t \in 1..Len(results.top_ai_files) : results.top_ai_files[t].path = entry.path

\* C10: after finalization top_ai_files has at most TopN entries, in
\* non-increasing density, no entry left out is denser than one kept, and
\* no entry has zero lines.
C10_TopFiles ==
    pc = "done" /\ NCandidates > 0 =>
        LET top == results.top_ai_files
        IN  /\ Len(top) <= TopN
            /\ \A a, b \in 1..Len(top) :
                  a < b => ~PercentLess(top[a].ai_percentage, top[b].ai_percentage)
            /\ \A e \in 1..Len(results.file_analysis) :
                  ~InTop(results.file_analysis[e]) =>
                      \A t \in 1..Len(top) :
                          ~PercentLess(top[t].ai_percentage,
                                       results.file_analysis[e].ai_percentage)
            /\ \A t \in 1..Len(top) : top[t].total_lines > 0

\* C11: the lists a call returns are built from the files of the tree it
\* scanned alone: top_ai_files is the head of the sorted file_analysis of
\* this call, and file_analysis has one entry per analysed file, also after
\* an earlier call on the same analyzer and for a tree without candidates.
C11_NothingSurvives ==
    pc = "done" =>
        /\ Len(results.file_analysis) = results.analysis_summary.analyzed_files
        /\ results.top_ai_files = Take(SortByDensity(results.file_analysis), TopN)

\* the phase of a scan at a position of analyze_repository
PhaseOf(p) ==
    CASE p = "idle" -> 0
      [] p = "discover" -> 1
      [] p \in {"sequential", "in_call", "parallel", "collect", "joined"} -> 2
      [] p = "done" -> 3
      [] OTHER -> 4

\* C12: a call that does not raise goes from Idle through Discovering and
\* Analyzing to Finalized, one phase at a time; the step into Finalized is
\* the one run of _finalize_results, and ai_percentage is written in no
\* other step of the scan.
C12_PhasesInOrder ==
    [][(pc # "raised" /\ pc' \notin {"raised", "refused"}) =>
          /\ \/ PhaseOf(pc') = PhaseOf(pc)
             \/ PhaseOf(pc') = PhaseOf(pc) + 1
             \/ pc = "done" /\ pc' = "discover"
          /\ (pc' = "done" /\ pc # "done") => results' = _finalize_results(results)
          /\ (PhaseOf(pc) \in {1, 2} /\ pc' # "done") =>
                 results'.analysis_summary.ai_percentage
                     = results.analysis_summary.ai_percentage]_vars

\* C13: while the thread pool is in use the accumulator changes only in a
\* step of the orchestrator: the merge of the result of a future that is
\* done, in submission order, and the finalization after the pool's threads
\* are joined.  A step of a pool thread leaves it as it is.
C13_OrchestratorWritesAlone ==
    [][(pc \in {"parallel", "collect", "joined"} /\ results' # results) =>
          \/ /\ pc = "collect"
             /\ i < Len(files_to_analyze)
             /\ futures[i + 1] = "done"
             /\ futures' = futures
             /\ i' = i + 1
             /\ results' = _process_file_result(results, Current, ret'.total_lines,
                                                ret'.ai_lines, ret'.patterns)
          \/ /\ pc = "joined"
             /\ pc' = "done"
             /\ futures' = futures]_vars

C13_Witness ==
    /\ pc = "collect"
    /\ i > 0
    /\ Len(results.file_analysis) > 0
    /\ Running # {}
    /\ \E k \in 1..Len(futures) : k > i /\ futures[k] = "done"

\* C14: the calls of analyze_file_patterns running in the pool at one time
\* are at most self.max_workers, which is the worker count the analyzer was
\* made with and, made without one, the smaller of the cpu count and 8.
C14_BoundedParallelism ==
    /\ Cardinality(Running) <= max_workers
    /\ init_args.max_workers # 0 => max_workers = init_args.max_workers
    /\ init_args.max_workers = 0 =>
           /\ max_workers <= init_args.cpu_count
           /\ max_workers <= DefaultWorkerCap
           /\ max_workers \in {init_args.cpu_count, DefaultWorkerCap}

C14_Witness ==
    /\ pc = "collect"
    /\ init_args.max_workers = 0
    /\ Queued # {}
    /\ Cardinality(Running) = max_workers
    /\ max_workers = MaxWorkers

\* C15: no call of analyze_file_patterns is made before the walk has
\* ended; from the first analysis step on, total_files is the number of
\* files the walk saw and files_to_analyze is the candidate list of the
\* tree, and no step of the analysis changes either.
C15_TwoPhase ==
    [][/\ pc \in {"idle", "discover"} =>
              \A j \in 1..Len(analysed) : analysed[j] = 0
       /\ PhaseOf(pc) = 2 =>
              /\ files_to_analyze = Candidates(repo)
              /\ results.analysis_summary.total_files = Len(repo.files)
              /\ files_to_analyze' = files_to_analyze
              /\ results'.analysis_summary.total_files
                     = results.analysis_summary.total_files]_vars

C15_Witness ==
    /\ pc = "sequential"
    /\ 0 < i /\ i < Len(files_to_analyze)
    /\ Len(files_to_analyze) < Len(repo.files)
    /\ \E j \in 1..Len(analysed) : analysed[j] > 0

\* C16: in the aggregate a finalized call returns, ai_percentage is
\* ai_pattern_lines / total_lines * 100 of the summed lines when
\* total_lines > 0, and 0 when total_lines = 0.
C16_GlobalPercentage ==
    pc = "done" =>
        LET summary == results.analysis_summary
            p == summary.ai_percentage
        IN  /\ p.den > 0
            /\ summary.total_lines > 0 =>
                   \* p.num / p.den * 100 = ai_pattern_lines / total_lines * 100
                   p.num * summary.total_lines = summary.ai_pattern_lines * p.den
            /\ summary.total_lines = 0 => p.num = 0

C16_Witness ==
    /\ pc = "done"
    /\ results.analysis_summary.analyzed_files > 1
    /\ results.analysis_summary.ai_pattern_lines > 0
    /\ results.analysis_summary.ai_pattern_lines < results.analysis_summary.total_lines
    /\ \E e \in 1..Len(results.file_analysis) :
          results.file_analysis[e].ai_pattern_lines = 0

\* C17: a finished scan of a tree whose candidates are all readable, and
\* analysed without an error or a timeout, has
\* seen every file below the root, has analysed as many files as have a
\* recognized suffix outside the skipped directories, and its
\* ai_pattern_lines is the sum of the per-file results; for a.py, b.py and
\* c.txt that is 3 files seen, 2 analysed, 0 lines for a.py, 400 for b.py,
\* and b.py at the head of top_ai_files.
C17_EndToEnd ==
    LET files == repo.files
        wanted == {j \in 1..Len(files) : Recognized(files[j]) /\ ~UnderSkipDir(files[j])}
        summary == results.analysis_summary
        per_file == results.file_analysis
    IN  (/\ pc = "done"
         /\ \A j \in wanted : files[j].readable /\ files[j].behaviour = "ok") =>
            /\ summary.total_files = Len(files)
            /\ summary.analyzed_files = Cardinality(wanted)
            /\ summary.ai_pattern_lines
                  = SumSeq([e \in 1..Len(per_file) |-> per_file[e].ai_pattern_lines])
            /\ files = <<APy, BPy, CTxt>> =>
                  /\ summary.total_files = 3
                  /\ summary.analyzed_files = 2
                  /\ Len(per_file) = 2
                  /\ per_file[1].path = <<"a.py">> /\ per_file[1].ai_pattern_lines = 0
                  /\ per_file[2].path = <<"b.py">> /\ per_file[2].ai_pattern_lines = 400
                  /\ results.top_ai_files[1].path = <<"b.py">>

\* a readable file that is blank or shorter than MinLines
Degenerate(file) ==
    /\ file.readable
    /\ file.size <= MaxFileSize
    /\ IsBlank(file) \/ LineCount(file) < MinLines

\* C18: the step that takes the result of a blank file, or of one shorter
\* than MinLines, unpacks 0 pattern lines and an empty mapping, merges them
\* as one more analysed file that adds nothing to the pattern sums, and
\* leaves the scan at the next candidate.
C18_DegenerateFilesAreResults ==
    [][(/\ pc \in {"sequential", "collect"}
        /\ i < Len(files_to_analyze)
        /\ i' # i
        /\ Degenerate(Current)
        /\ Current.behaviour = "ok") =>
          /\ pc' = pc
          /\ i' = i + 1
          /\ ret'.of = files_to_analyze[i + 1]
          /\ ret'.ai_lines = 0
          /\ ret'.patterns = EmptyDict
          /\ ret'.total_lines = IF IsBlank(Current) THEN 0 ELSE LineCount(Current)
          /\ results'.analysis_summary.analyzed_files
                = results.analysis_summary.analyzed_files + 1
          /\ results'.analysis_summary.ai_pattern_lines
                = results.analysis_summary.ai_pattern_lines
          /\ results'.pattern_details = results.pattern_details
          /\ Len(results'.file_analysis) = Len(results.file_analysis) + 1]_vars

\* a finished scan that went past a short file in which a rule matches and
\* analysed a file after it
C18_Witness ==
    /\ pc = "done"
    /\ Len(files_to_analyze) = 2
    /\ Degenerate(FileOf(1))
    /\ ~IsBlank(FileOf(1))
    /\ FileOf(1).rx # EmptyDict
    /\ ~Degenerate(FileOf(2))
    /\ results.analysis_summary.analyzed_files = 2
    /\ results.analysis_summary.ai_pattern_lines > 0

\* C19: a call whose root does not exist, or cannot be listed, ends in a
\* failure handed to the caller: it never returns an aggregate as a
\* finished scan does.
C19_BrokenRootIsFatal ==
    repo.access # "ok" => pc \in {"idle", "discover", "refused", "raised"}

\* the file without the rules that raise on it
WithoutFailingRules(file) ==
    [file EXCEPT !.rx = [r \in (DOMAIN file.rx) \ file.rx_error |-> file.rx[r]],
                 !.rx_error = {}]

\* C20: the result of a file on which a rule raises re.error is the result
\* the file would have if that rule had matched nothing: the other rules of
\* its language and the general rules are applied and counted, and the
\* tuple is returned.
C20_FailingRuleSkippedAlone ==
    (ret.of # 0 /\ repo.files[ret.of].rx_error # {}) =>
        LET file  == repo.files[ret.of]
            clean == analyze_file_patterns(WithoutFailingRules(file))
        IN  /\ ret.total_lines = clean.total_lines
            /\ ret.ai_lines = clean.ai_lines
            /\ ret.patterns = clean.patterns
            /\ \A r \in (DOMAIN file.rx) \ file.rx_error :
                  (/\ r[1] \in {detect_language(file), "general"}
                   /\ r[2] \notin {"long_lines", "deep_nesting", "excessive_comments"})
                  => DictGet(ret.patterns, r[2]) >= file.rx[r]
            /\ \A r \in file.rx_error :
                  DictGet(ret.patterns, r[2]) = DictGet(clean.patterns, r[2])

C20_Witness ==
    /\ ret.of # 0
    /\ repo.files[ret.of].rx_error # {}
    /\ \E r \in repo.files[ret.of].rx_error : repo.files[ret.of].rx[r] > 0
    /\ DictGet(ret.patterns, "redundant_comments") = 1
    /\ DictGet(ret.patterns, "magic_numbers") = 3
    /\ DictGet(ret.patterns, "verbose_logging") = 0
    /\ ret.ai_lines = 3
    /\ results.analysis_summary.analyzed_files = 1

EntriesOf(k) ==
    {e \in 1..Len(results.file_analysis) :
        results.file_analysis[e].path = FileOf(k).dirs \o <<FileOf(k).name>>}

\* C22: during a call analyze_file_patterns is entered at most once for a
\* file, a candidate has at most one per-file entry, and a candidate whose
\* wait expired has none, also after its pool thread has ended.
C22_AtMostOnce ==
    /\ \A j \in 1..Len(analysed) : analysed[j] <= 1
    /\ \A k \in 1..NCandidates : Cardinality(EntriesOf(k)) <= 1
    /\ \A k \in timed_out : EntriesOf(k) = {}
    /\ results.analysis_summary.analyzed_files = Len(results.file_analysis)

\* a returned call in which a wait expired on a call that ended afterwards
C22_Witness ==
    /\ pc = "done"
    /\ \E k \in timed_out : futures[k] = "done" /\ analysed[files_to_analyze[k]] = 1
    /\ results.analysis_summary.analyzed_files = NCandidates - 1

\* C28: in every state of a scan the summed ai_pattern_lines are at most
\* four fifths of the summed total_lines, as they are in every returned
\* tuple and per-file entry, and the ai_percentage of a finished scan is at
\* most 80.
C28_AtMostFourFifths ==
    /\ 5 * results.analysis_summary.ai_pattern_lines
          <= 4 * results.analysis_summary.total_lines
    /\ 5 * ret.ai_lines <= 4 * ret.total_lines
    /\ \A e \in 1..Len(results.file_analysis) :
          5 * results.file_analysis[e].ai_pattern_lines
              <= 4 * results.file_analysis[e].total_lines
    /\ 5 * results.analysis_summary.ai_percentage.num
          <= 4 * results.analysis_summary.ai_percentage.den

\* a finished scan of a file whose estimate is exactly four fifths of it
C28_Witness ==
    /\ pc = "done"
    /\ results.analysis_summary.total_lines > 0
    /\ 5 * results.analysis_summary.ai_pattern_lines
          = 4 * results.analysis_summary.total_lines
    /\ 5 * results.analysis_summary.ai_percentage.num
          = 4 * results.analysis_summary.ai_percentage.den
    /\ DictSum(ret.patterns) >= SparseScore

\* the sum of a field over the per-file entries of one language
LanguageSum(l, field) ==
    SumSeq([e \in 1..Len(results.file_analysis) |->
               IF results.file_analysis[e].language = l
               THEN results.file_analysis[e][field] ELSE 0])

EntrySum(field) ==
    SumSeq([e \in 1..Len(results.file_analysis) |-> results.file_analysis[e][field]])

\* C29: in every state of a scan, and so after every merge, the summary,
\* the language breakdown and the per-file list agree: analyzed_files is
\* the number of entries, the two line sums are the sums over the entries,
\* each language holds the count and the sums of its own entries, every
\* entry's language is in the breakdown, and no more files are counted than
\* there are candidates.
C29_AggregateConsistent ==
    LET summary == results.analysis_summary
        per_file == results.file_analysis
        langs == results.language_breakdown
    IN  /\ summary.analyzed_files = Len(per_file)
        /\ summary.total_lines = EntrySum("total_lines")
        /\ summary.ai_pattern_lines = EntrySum("ai_pattern_lines")
        /\ \A e \in 1..Len(per_file) : per_file[e].language \in DOMAIN langs
        /\ \A l \in DOMAIN langs :
              /\ langs[l].files
                    = Cardinality({e \in 1..Len(per_file) : per_file[e].language = l})
              /\ langs[l].files > 0
              /\ langs[l].total_lines = LanguageSum(l, "total_lines")
              /\ langs[l].ai_pattern_lines = LanguageSum(l, "ai_pattern_lines")
        /\ summary.analyzed_files <= NCandidates

\* a scan under way that has merged files of two languages, one of them
\* a file without lines
C29_Witness ==
    /\ pc \in {"sequential", "collect"}
    /\ Cardinality(DOMAIN results.language_breakdown) >= 2
    /\ results.analysis_summary.ai_pattern_lines > 0
    /\ \E e \in 1..Len(results.file_analysis) :
          results.file_analysis[e].total_lines = 0

\* C30: once the walk has ended, the candidate list holds exactly the files
\* with a recognized suffix and no skipped name among their directories
\* below the root, whatever the names on the path of the root itself.
C30_CandidacyRelativeToRoot ==
    PhaseOf(pc) \in {2, 3} =>
        \A j \in 1..Len(repo.files) :
            (Recognized(repo.files[j]) /\ ~UnderSkipDir(repo.files[j]))
            <=> \E k \in 1..NCandidates : files_to_analyze[k] = j

\* C23: the commit window passed to the API starts 30 days before its end,
\* and the report of a completed analysis carries this window under its
\* 'Last 30 days' period.
C23_WindowIsLastMonth ==
    /\ monthly.pc # "none" => monthly.end_date - monthly.start_date = ReportedDays
    /\ monthly.pc = "returned" =>
          monthly.report.end_date - monthly.report.start_date
              = monthly.report.analysis_period

\* C26: with a company filter set the analysis never raises, and every
\* contributor of the returned report has a company that contains the filter
\* text, compared without case.
C26_FilterNeverFails ==
    ~monthly.company_filter.none =>
        /\ monthly.pc # "raised"
        /\ monthly.pc = "returned" =>
              \A r \in 1..Len(monthly.report.contributors) :
                  LET company == monthly.report.contributors[r].company
                  IN  /\ ~company.none
                      /\ Contains(StrLower(monthly.company_filter.text),
                                  StrLower(company.text))

\* the listing of an organization as get_organization_repos names it
Listing(org, count) == [j \in 1..count |-> FullName(org.name, ToString(j))]

\* the pages are asked in the order 1, 2, 3, ...; all the pages before the
\* last one asked were answered 200 with repositories, and a returned call
\* asked last a page answered with another status or without repositories;
\* it holds the whole listing when every answer was 200, and the
\* repositories of the pages before the failed one otherwise
PagesInOrder ==
    collector.pc \in {"paging", "returned"} =>
        LET org   == collector.org
            asked == collector.requested
            full(p)  == PageResponse(org, p).status_code = 200
                        /\ PageResponse(org, p).json # << >>
            before   == IF org.size < (org.fail_at - 1) * PerPage THEN org.size
                        ELSE (org.fail_at - 1) * PerPage
        IN  /\ \A j \in 1..Len(asked) : asked[j] = j
            /\ collector.pc = "paging" =>
                  /\ collector.page = Len(asked) + 1
                  /\ \A p \in 1..Len(asked) : full(p)
            /\ collector.pc = "returned" =>
                  /\ Len(asked) >= 1
                  /\ \A p \in 1..(Len(asked) - 1) : full(p)
                  /\ ~full(Len(asked))
                  /\ IF \A p \in 1..Len(asked) : PageResponse(org, p).status_code = 200
                     THEN collector.repos = Listing(org, org.size)
                     ELSE collector.repos = Listing(org, before)

\* C27: get_organization_repos asks the pages 1, 2, 3, ... in order and ends
\* at the first empty page or the first answer other than 200; a call on an
\* organization of finitely many repositories returns; with every answer 200
\* it returns every repository of every non-empty page in page order, and
\* after an answer other than 200 the repositories collected so far.
C27_PagingEnds ==
    /\ []PagesInOrder
    /\ (collector.pc = "paging") ~> (collector.pc = "returned")

\* the third page of an organization of more than two pages is refused, and
\* the two pages read are returned
C27_Witness ==
    /\ collector.pc = "returned"
    /\ collector.org.fail_at = 3
    /\ collector.org.size > 2 * PerPage
    /\ Len(collector.repos) = 2 * PerPage

\* a name of the owner/repo form whose repository info is fetched
Fetched(host, repo_name) ==
    /\ HasSlash(repo_name)
    /\ Hosted(host, SplitOnce(repo_name).owner, SplitOnce(repo_name).repo).info = 200

\* C24: rank_repos_by_commits returns one entry for each input name of the
\* owner/repo form whose repository info was fetched, in non-increasing
\* order of total_commits, with the ranks 1..n in list order; the other
\* names are left out and every name of the input is gone through.
C24_RankingOfFetched ==
    collector.pc = "ranked" =>
        LET out  == collector.ranked_repos
            kept == SelectSeq(collector.repositories,
                              LAMBDA repo_name : Fetched(collector.host, repo_name))
        IN  /\ collector.n = Len(collector.repositories)
            /\ Len(out) = Len(kept)
            /\ \A repo_name \in RepoNames :
                  Cardinality({r \in 1..Len(out) : out[r].repository = repo_name})
                      = Cardinality({j \in 1..Len(kept) : kept[j] = repo_name})
            /\ \A r \in 1..(Len(out) - 1) :
                  out[r].total_commits >= out[r + 1].total_commits
            /\ \A r \in 1..Len(out) : out[r].rank = r

\* of three names the first is left out, being malformed or not fetched,
\* and the last, with more commits, is ranked before the second
C24_Witness ==
    /\ collector.pc = "ranked"
    /\ Len(collector.repositories) = 3
    /\ ~Fetched(collector.host, collector.repositories[1])
    /\ Len(collector.ranked_repos) = 2
    /\ collector.ranked_repos[1].repository = collector.repositories[3]
    /\ collector.ranked_repos[1].total_commits > collector.ranked_repos[2].total_commits

RECURSIVE ContributionSum(_, _, _)
ContributionSum(org, login, upto) ==
    IF upto = 0 THEN 0
    ELSE org.contributions[upto][login] + ContributionSum(org, login, upto - 1)

\* C25: a contributor is in the ranking of analyze_org_contributors exactly
\* when the contributions summed over all the repositories of the
\* organization are at least min_contributions, and total_contributions is
\* that sum.
C25_ThresholdOnTheSum ==
    collector.pc = "analysed" =>
        \A l \in 1..Len(Logins) :
            LET sum    == ContributionSum(collector.org, Logins[l], collector.org.size)
                listed == {r \in 1..Len(collector.contributors_list) :
                              collector.contributors_list[r].login = Logins[l]}
            IN  /\ (listed # {}) <=> (sum >= collector.min_contributions)
                /\ \A r \in listed :
                      collector.contributors_list[r].total_contributions = sum
=============================================================================
